---- MODULE Spec2Model ----
(***************************************************************************)
(* State-machine model of the benchmark lifecycle of benchmark.ts:         *)
(* Benchmark.run / abort / reset (src/src/benchmark.ts), the cycle         *)
(* controller, the sampling controller and the invoker                     *)
(* (src/unnamed/part_000, the module imported as './lifecycle').           *)
(*                                                                         *)
(* Facts of the source the model follows:                                  *)
(*  - cloneDeep (src/src/benchmark-times.ts:45) is partial(cloneDeepWith, *)
(*    undefined, fn): the bound first argument is the value that is        *)
(*    cloned, so cloneDeep(x) is undefined for every x.  Hence             *)
(*    this.options is undefined, the traversal source of reset() is {}     *)
(*    and reset() never changes a field nor emits 'reset'; a clone made    *)
(*    by clone() carries the class defaults (initCount 1, defer false).    *)
(*  - compute.enqueue replaces the clone's `events` Map by a plain object; *)
(*    emit() tests `this.events.size > 0`, which is false for it, so no    *)
(*    listener (compute.update included) is invoked on such a clone, and   *)
(*    on()/off() throw a TypeError (`this.events.get` is not a function).  *)
(* Time is counted in integer ticks of the timer; periods and rates are    *)
(* exact fractions <<numerator, denominator>>, <<1, 0>> being Infinity.    *)
(***************************************************************************)
EXTENDS Integers, Sequences, FiniteSets, TLC

\* ---------------------------------------------------------------- bounds
\* Clones created over the whole behaviour (compute.enqueue calls).
MaxClones == 4
\* Top-level run() calls made by the user on B.
MaxRuns == 3
\* Top-level run() calls made by the user on a clone driven on its own.
MaxCloneRuns == 2
\* Top-level abort()/reset() calls made by the user.
MaxCalls == 2
\* Length of the list handed to invoke() when it is studied on its own.
MaxList == 3
\* Objects a cycle callback pushes onto that list while it is iterated.
MaxAppend == 1
\* Timer factories handed to the timer selection.
MaxTimers == 2
\* on() and off() calls made before the event is emitted.
MaxOn == 3
MaxOff == 1
\* Size of the largest sample handed to compare().
MaxSample == 30
\* Measurements getResolution makes of one timer (30 in part_002:20).
MeasureCount == 2
\* Highest cycle number at which one computation of the next count is studied.
MaxCycle == 6
\* Largest count of the batch one call of clock() is studied with.
MaxBatch == 3
\* Top-level abort() / reset() calls made by the user on two benchmarks.
MaxGuardCalls == 2

\* Values the user may have assigned to the public configuration fields.
MinSamplesChoices == {1, 2}
MaxTimeChoices == {2}
\* Ticks the default minTime (benchmark.ts:167) amounts to.
MinTime == 2
\* Time the test body takes: cost[1] ticks per cost[2] iterations.
Costs == {<<0, 1>>, <<1, 2>>, <<1, 1>>, <<2, 1>>}
\* A test body that throws whenever it is invoked.
Throws == <<0, 0>>
\* The test bodies under study.
Bodies == Costs \cup {Throws}

\* ------------------------------------------------------------- fractions
Inf == <<1, 0>>
Zero == <<0, 1>>

RECURSIVE Gcd(_, _)
Gcd(a, b) == IF b = 0 THEN a ELSE Gcd(b, a % b)

\* The fraction n/d in lowest terms; x/0 is Infinity for x > 0.
Norm(f) ==
  IF f[2] = 0 THEN Inf
  ELSE IF f[1] = 0 THEN Zero
  ELSE LET g == Gcd(f[1], f[2]) IN <<f[1] \div g, f[2] \div g>>

FracAdd(a, b) == Norm(<<a[1] * b[2] + b[1] * a[2], a[2] * b[2]>>)
\* 1 / f
FracInv(f) == IF f[1] = 0 THEN Inf ELSE IF f[2] = 0 THEN Zero ELSE Norm(<<f[2], f[1]>>)

RECURSIVE FracSum(_)
FracSum(s) == IF s = <<>> THEN Zero ELSE FracAdd(Head(s), FracSum(Tail(s)))

\* getMean: (sum / length) || 0, the empty sample giving NaN || 0 = 0.
getMean(sample) ==
  IF sample = <<>> THEN Zero
  ELSE LET s == FracSum(sample) IN Norm(<<s[1], s[2] * Len(sample)>>)

\* ------------------------------------------------------------ benchmarks
NoError == "none"
BodyError == "thrown"

\* The fields of a Benchmark just after construction (class field
\* initialisers and the constructor's minTime default).
NewBenchmark ==
  [ running |-> FALSE, aborted |-> FALSE, error |-> NoError,
    count |-> 0, cycles |-> 0, hz |-> Zero, initCount |-> 1,
    minTime |-> MinTime, minSamples |-> 5, maxTime |-> 5,
    tCycle |-> Zero, tElapsed |-> 0, tPeriod |-> Zero, tTimeStamp |-> 0,
    sample |-> <<>>, mean |-> Zero,
    timerId |-> FALSE, defer |-> FALSE ]

VARIABLES
  bench,      \* the source benchmark B
  clones,     \* clone id -> benchmark record (ids 1..nClones exist)
  nClones,    \* clones created so far
  evMap,      \* clone id -> TRUE iff its `events` is a Map (listeners work)
  body,       \* clone id -> cost of the test body while that clone is clocked
  queue,      \* compute: the clone queue (ids), also invoke's `benches`
  elapsed,    \* compute: the elapsed budget
  initCount0, \* compute: bench.initCount captured at the start
  minSamples0,\* compute: bench.minSamples captured at the start
  index,      \* invoke: index (-1 before the first raiseIndex)
  cur,        \* invoke: the current `bench` (a clone id), 0 if none
  cycleEvent, \* invoke: cycleEvent.aborted as left by the 'cycle' callback
  asyncArg,   \* the `async` option of the run in progress
  timers,     \* pending setTimeout callbacks: [owner, cb]
  pc,         \* "idle" (no code running) or the function about to run
  now,        \* timer.ns()
  log,        \* events emitted on B since its run()
  clog,       \* events emitted on the clone `cur` since its run(), and "clock"
              \* for each batch clocked for it
  last,       \* the last top-level call and what it did
  runs, calls,\* top-level calls made so far
  ghost,      \* history: sum of (now - timeStamp) over evaluated clones, etc.
  unit,       \* a function studied on its own: its input and, once it has
              \* been applied, its outcome
  inv         \* one invoke() call studied on its own: its closure variables
              \* (benches, result, index, bench, args), the objects of the
              \* list, and the history of what it notified and called

vars == << cycleEvent, bench, clones, nClones, evMap, body, queue, elapsed, initCount0,
           minSamples0, index, cur, asyncArg, timers, pc, now, log, clog,
           last, runs, calls, ghost, inv, unit >>

CloneIds == 1..MaxClones

\* ------------------------------------------------------ invoke(): data
\* The objects a list may hold: ids 1..MaxList + MaxAppend.
ObjIds == 1..(MaxList + MaxAppend)
\* What isAsync looks at: `object instanceof Benchmark` and object.defer.
Kinds == {"object", "benchmark", "deferred"}
\* args[0].async as handed to invoke(); "null" when it is not given.
AsyncArgs == {"true", "false", "null"}
\* The user's 'complete' listeners of a benchmark, in registration order.
UserListeners == <<"u1", "u2">>
\* `index = false`, the value raiseIndex leaves at the end of the list.
IndexFalse == -2

\* One entry of the history: notification, call or listener invocation
\* `e` about object `o`, with a detail `l`.
Note(e, o, l) == [e |-> e, o |-> o, l |-> l]
\* An element of `result`: the object itself (ret = FALSE) or the value
\* its method returned (ret = TRUE).
Slot(o, ret) == [o |-> o, ret |-> ret]

\* No function is under study.
NoUnit == [pc |-> "none"]

NoInvoke ==
  [ pc |-> "none", benches |-> <<>>, result |-> <<>>, index |-> -1,
    bench |-> 0, kind |-> [o \in ObjIds |-> "object"],
    run |-> FALSE, async |-> "false", queued |-> FALSE,
    listeners |-> [o \in ObjIds |-> <<>>],
    how |-> "loop", list0 |-> <<>>, pushed |-> <<>>, notes |-> <<>>,
    suite |-> FALSE, error |-> [o \in ObjIds |-> FALSE],
    running |-> FALSE ]

NoCall == [op |-> "none"]

NewGhost == [sumAll |-> 0, sumLate |-> 0, evaluated |-> 0, size |-> 0,
             early |-> FALSE, maxedOut |-> FALSE,
             unclockable |-> FALSE, startCancelled |-> FALSE,
             uncaught |-> 0, batches |-> 0]

\* Benchmark ids: 0 is the source benchmark B, 1.. are clones.
Obj(t) == IF t = 0 THEN bench ELSE clones[t]

\* emit(): listeners run only if `events` is a Map holding the type
\* (this.events.size > 0 && this.events.has(type)).  What a listener may
\* do to the event (return false, set aborted) is then an input.
Lis(t) == IF t = 0 \/ evMap[t] THEN BOOLEAN ELSE {FALSE}

\* The same for an event that is emitted only when `emitted` holds.
LisIf(t, emitted) == IF emitted THEN Lis(t) ELSE {FALSE}

\* delayFn(callback): setTimeout, remembered in _timerId.
delayFn(owner, cb) == timers \cup {[owner |-> owner, cb |-> cb]}
\* A clearTimeout that leaves the callback registered.
clearTimeoutKept(owner) == timers
\* clearTimeout(this._timerId)
clearTimeout(owner) == {t \in timers : t.owner # owner}

\* reset() below the early return: collects the fields that differ from
\* assign({}, cloneDeep(prototype), cloneDeep(options)) = {} and assigns
\* them; there are none, so no 'reset' event and no change.
ResetFields(o) == o

\* An abort() that does not look at `running`.
abortAlways(o, cancelled, resetting) ==
  IF ~cancelled \/ resetting
  THEN [o EXCEPT !.timerId = FALSE,
                 !.aborted = IF resetting THEN @ ELSE TRUE,
                 !.running = IF resetting THEN @ ELSE FALSE]
  ELSE o

\* An abort() that sets `aborted` but leaves `running` as it was.
abortStillRunning(o, cancelled, resetting) ==
  IF o.running /\ (~cancelled \/ resetting)
  THEN [o EXCEPT !.timerId = FALSE,
                 !.aborted = IF resetting THEN @ ELSE TRUE]
  ELSE o
\* abort() on the record o.  cancelled: an abort listener returned false;
\* resetting: calledBy.reset, i.e. called from inside reset().
abort(o, cancelled, resetting) ==
  IF o.running /\ (~cancelled \/ resetting)
  THEN LET r == ResetFields(o)
       IN [r EXCEPT !.timerId = FALSE,
                    !.aborted = IF resetting THEN @ ELSE TRUE,
                    !.running = IF resetting THEN @ ELSE FALSE]
  ELSE o

\* What abort() on the record o adds to the events emitted on o: the
\* 'abort' event when o is running, followed by the mark "cancel" when a
\* listener returned false (event.cancelled).
abortEvents(o, cancelled) ==
  IF o.running
  THEN (IF cancelled THEN <<"abort", "cancel">> ELSE <<"abort">>)
  ELSE <<>>

\* reset() on the record o (calledBy.abort is false at top level).
reset(o, cancelled) ==
  IF o.running THEN abort(o, cancelled, TRUE) ELSE ResetFields(o)

\* A run() prologue that leaves the benchmark not running.
runPrologueIdle(o) ==
  [ResetFields([o EXCEPT !.running = FALSE])
     EXCEPT !.count = o.initCount, !.tTimeStamp = now]

\* The part of run() that precedes the dispatch: running cleared for
\* reset(), reset(), running set, count and timeStamp initialised.
runPrologue(o) ==
  [ResetFields([o EXCEPT !.running = FALSE])
     EXCEPT !.running = TRUE, !.count = o.initCount, !.tTimeStamp = now]

\* -------------------------------------------------------------- the clock
\* Used to avoid hz of Infinity (constants.ts:18-24).
divisors == [k \in 1..5 |-> CASE k = 1 -> 4096 [] k = 2 -> 512 [] k = 3 -> 64
                                [] k = 4 -> 8 [] k = 5 -> 0]

\* Math.ceil(a / b) for a >= 0, b > 0
Ceil(a, b) == (a + b - 1) \div b

\* The count Infinity.
CountInf == -1

\* What the compiled batch measures: `count` iterations of a body that
\* takes cost[1] ticks per cost[2] iterations, read off an integer timer.
ClockElapsed(count, cost) == (count * cost[1]) \div cost[2]

\* A cycle() that takes the raised count whatever the current count is.
NextCountKeep(count0, cycles, clocked, minTime) ==
  IF clocked = 0
  THEN (IF cycles \in DOMAIN divisors
        THEN (IF divisors[cycles] = 0 THEN CountInf
              ELSE 4000000 \div divisors[cycles])
        ELSE CountInf)
  ELSE count0 + Ceil((minTime - clocked) * count0, clocked)

\* A cycle() that adds one iteration more than the estimate.
NextCountOver(count0, cycles, clocked, minTime) ==
  IF clocked = 0 THEN CountInf
  ELSE count0 + Ceil((minTime - clocked) * count0, clocked) + 1

\* A cycle() that gives up after every batch short of minTime.
NextCountStuck(count0, cycles, clocked, minTime) == CountInf

\* cycle(), lines 90-101: the count of the next cycle after a batch of
\* count0 iterations clocked `clocked` < minTime at cycle number `cycles`.
NextCount(count0, cycles, clocked, minTime) ==
  LET c1 == IF clocked = 0 /\ cycles \in DOMAIN divisors
            THEN (IF divisors[cycles] = 0 THEN CountInf
                  ELSE 4000000 \div divisors[cycles])
            ELSE count0
  IN IF c1 # CountInf /\ c1 <= count0
     THEN (IF clocked = 0 THEN CountInf
           ELSE c1 + Ceil((minTime - clocked) * count0, clocked))
     ELSE c1

\* ------------------------------------------------------------------ Init
InitCommon ==
  /\ queue = <<>> /\ elapsed = 0 /\ initCount0 = 1 /\ minSamples0 = 5
  /\ index = -1 /\ asyncArg = FALSE /\ cycleEvent = FALSE
  /\ timers = {} /\ pc = "idle" /\ now = 0 /\ log = <<>> /\ clog = <<>>
  /\ last = NoCall /\ runs = 0 /\ calls = 0 /\ ghost = NewGhost
  /\ body = [c \in CloneIds |-> <<1, 1>>]

\* A constructed source benchmark whose public minSamples / maxTime fields
\* hold one of the values under study; no clone exists yet.
Init ==
  /\ InitCommon
  /\ \E ms \in MinSamplesChoices, mt \in MaxTimeChoices :
       bench = [NewBenchmark EXCEPT !.minSamples = ms, !.maxTime = mt]
  /\ clones = [c \in CloneIds |-> NewBenchmark]
  /\ evMap = [c \in CloneIds |-> FALSE]
  /\ nClones = 0
  /\ cur = 0
  /\ inv = NoInvoke
  /\ unit = NoUnit

\* ------------------------------------------------- run() on the source B
\* An enqueue that pushes the new clone twice.
enqueueTwice(q) == Append(Append(q, nClones + 1), nClones + 1)
\* compute.enqueue: bench.clone() with _original and `events` replaced.
\* The clone is `new Benchmark({})` (this.options is undefined) and every
\* own field already exists on it, so it holds the class defaults.
enqueue(q) == Append(q, nClones + 1)

\* What a top-level call leaves in `last`: the call, the record it was
\* made on as it was before, whether a listener cancelled the event the
\* call emitted (abort() and reset() emit none unless the benchmark is
\* running), the events emitted before, and whether a callback registered
\* through its delayFn was pending.
Call(op, t, cancelled, events) ==
  [op |-> op, target |-> t, pre |-> Obj(t),
   cancelled |-> cancelled /\ (op = "run" \/ Obj(t).running),
   preLen |-> Len(events), pending |-> \E x \in timers : x.owner = t]

\* Benchmark.run() on B: prologue, 'start', then compute(): enqueue the
\* first clone and enter invoke() (raiseIndex, onStart = NOOP); a
\* synchronous clone is executed at once, an asynchronous one through
\* clone.delayFn(execute).
Run(async, cancelled) ==
  /\ pc = "idle" /\ runs < MaxRuns
  /\ runs' = runs + 1
  /\ bench' = runPrologue(bench)
  /\ log' = <<"start">>
  /\ last' = Call("run", 0, cancelled, log)
  /\ asyncArg' = async
  /\ IF cancelled
     THEN /\ ghost' = [ghost EXCEPT !.startCancelled = TRUE]
          /\ UNCHANGED <<clones, nClones, evMap, body, queue, elapsed,
                         initCount0, minSamples0, index, cur, timers, pc>>
     ELSE /\ nClones < MaxClones
          /\ ghost' = [NewGhost EXCEPT !.uncaught = ghost.uncaught]
          /\ nClones' = nClones + 1
          /\ clones' = [clones EXCEPT ![nClones + 1] =
                          [NewBenchmark EXCEPT !.timerId = async]]
          /\ evMap' = [evMap EXCEPT ![nClones + 1] = FALSE]
          /\ queue' = enqueue(<<>>)
          /\ elapsed' = 0
          /\ initCount0' = bench.initCount
          /\ minSamples0' = bench.minSamples
          /\ index' = 0
          /\ cur' = nClones + 1
          /\ timers' = IF async THEN delayFn(nClones + 1, "execute") ELSE timers
          /\ pc' = IF async THEN "idle" ELSE "execute"
          /\ UNCHANGED body
  /\ UNCHANGED <<cycleEvent, now, calls, clog>>
  /\ UNCHANGED <<inv, unit>>

\* abort() called by the user on B.
Abort(cancelled) ==
  /\ pc = "idle" /\ calls < MaxCalls
  /\ calls' = calls + 1
  /\ bench' = abort(bench, cancelled, FALSE)
  /\ log' = log \o abortEvents(bench, cancelled)
  /\ timers' = IF bench.running /\ ~cancelled THEN clearTimeout(0) ELSE timers
  /\ last' = Call("abort", 0, cancelled, log)
  /\ UNCHANGED <<cycleEvent, clones, nClones, evMap, body, queue, elapsed, initCount0,
                 minSamples0, index, cur, asyncArg, pc, now, runs, ghost, clog>>
  /\ UNCHANGED <<inv, unit>>

\* reset() called by the user on B: aborts first when B is running.
Reset(cancelled) ==
  /\ pc = "idle" /\ calls < MaxCalls
  /\ calls' = calls + 1
  /\ bench' = reset(bench, cancelled)
  /\ log' = log \o abortEvents(bench, cancelled)
  /\ timers' = IF bench.running THEN clearTimeout(0) ELSE timers
  /\ last' = Call("reset", 0, cancelled, log)
  /\ UNCHANGED <<cycleEvent, clones, nClones, evMap, body, queue, elapsed, initCount0,
                 minSamples0, index, cur, asyncArg, pc, now, runs, ghost, clog>>
  /\ UNCHANGED <<inv, unit>>

\* An execute() whose bench.on('complete', getNext) succeeds, so that the
\* timer goes on to clone.run().
ExecuteTimerRuns ==
  /\ pc = "idle"
  /\ \E t \in timers :
       /\ t.cb = "execute" /\ ~evMap[t.owner]
       /\ timers' = timers \ {t}
  /\ pc' = "execute"
  /\ last' = NoCall
  /\ UNCHANGED <<cycleEvent, bench, clones, nClones, evMap, body, queue, elapsed,
                 initCount0, minSamples0, index, cur, asyncArg, now, log,
                 clog, runs, calls, ghost>>
  /\ UNCHANGED <<inv, unit>>

\* The invoker's execute() fired by the timer of an asynchronous clone:
\* bench.on('complete', getNext) calls this.events.get on the plain object
\* compute.enqueue installed and throws a TypeError; nothing else runs.
ExecuteTimer ==
  /\ pc = "idle"
  /\ \E t \in timers :
       /\ t.cb = "execute" /\ ~evMap[t.owner]
       /\ timers' = timers \ {t}
  /\ ghost' = [ghost EXCEPT !.uncaught = 1]
  /\ last' = NoCall
  /\ UNCHANGED <<cycleEvent, bench, clones, nClones, evMap, body, queue, elapsed,
                 initCount0, minSamples0, index, cur, asyncArg, pc, now, log,
                 clog, runs, calls>>
  /\ UNCHANGED <<inv, unit>>

\* The invoker's execute() for a synchronous clone: clone.run({async}),
\* i.e. the prologue, 'start' (no listener runs on the clone) and the
\* call of cycle(clone).  The test body clocked for this clone costs k.
Execute ==
  /\ pc = "execute"
  /\ \E k \in Bodies : body' = [body EXCEPT ![cur] = k]
  /\ clones' = [clones EXCEPT ![cur] = runPrologue(@)]
  /\ clog' = <<"start">>
  /\ pc' = "cycle"
  /\ last' = NoCall
  /\ UNCHANGED <<cycleEvent, bench, nClones, evMap, queue, elapsed, initCount0,
                 minSamples0, index, cur, asyncArg, timers, now, log,
                 runs, calls, ghost>>
  /\ UNCHANGED <<inv, unit>>

\* One call of cycle(clone): clock() and its bookkeeping (lines 53-64),
\* the error branch (65-72), the evaluation of the batch (77-103), the
\* 'cycle' event (105-110) and the scheduling of the next cycle or the
\* 'complete' event (113-133).  A test body that throws does so in
\* clock()'s pre-tests, which leaves clone.error set and makes clock()
\* return 0; otherwise clock() deletes clone.error and returns the time of
\* the batch.
Cycle ==
  /\ pc = "cycle"
  /\ \E cycAbort \in Lis(cur) :
     \E errCancel \in LisIf(cur, clones[cur].running /\ body[cur] = Throws) :
     \E abCancel1 \in LisIf(cur, clones[cur].running /\ body[cur] = Throws
                                  /\ ~errCancel),
        abCancel2 \in LisIf(cur, cycAbort) :
     LET c == cur
         thrown == body[c] = Throws
         cl0 == clones[c]
         count0 == cl0.count
         ran == cl0.running
         minTime == bench.minTime
         clocked == IF ran /\ ~thrown THEN ClockElapsed(count0, body[c]) ELSE 0
         cl1 == IF ran
                THEN [cl0 EXCEPT !.cycles = @ + 1, !.minTime = minTime,
                                 !.error = IF thrown THEN BodyError ELSE NoError]
                ELSE cl0
         b1 == IF ran
               THEN [bench EXCEPT !.count = count0,
                                  !.cycles = IF cl1.cycles > @ THEN cl1.cycles ELSE @]
               ELSE bench
         errored == ran /\ cl1.error # NoError
         ab1 == errored /\ ~errCancel
         cl2 == IF ab1 THEN abort(cl1, abCancel1, FALSE) ELSE cl1
         eval == cl2.running
         period == <<clocked, count0>>
         more == clocked < minTime
         next == IF eval /\ more
                 THEN NextCount(count0, cl1.cycles, clocked, minTime)
                 ELSE count0
         cl3 == IF eval
                THEN [cl2 EXCEPT !.tCycle = <<clocked, 1>>, !.tPeriod = Norm(period),
                                 !.hz = FracInv(period), !.initCount = count0,
                                 !.running = more /\ next # CountInf]
                ELSE cl2
         b2 == IF eval
               THEN [b1 EXCEPT !.tCycle = <<clocked, 1>>, !.tPeriod = Norm(period),
                               !.hz = FracInv(period), !.initCount = count0]
               ELSE b1
         cl4 == IF cycAbort THEN abort(cl3, abCancel2, FALSE) ELSE cl3
         cont == cl4.running
         cl5 == IF cont THEN [cl4 EXCEPT !.count = next,
                                         !.timerId = IF asyncArg THEN TRUE ELSE @]
                ELSE cl4
     IN /\ clones' = [clones EXCEPT ![c] = cl5]
        /\ bench' = b2
        /\ now' = now + clocked
        /\ clog' = clog
                   \o (IF ran THEN <<"clock">> ELSE <<>>)
                   \o (IF errored THEN <<"error">> ELSE <<>>)
                   \o (IF ab1 THEN abortEvents(cl1, abCancel1) ELSE <<>>)
                   \o (IF cycAbort THEN <<"cycle", "aborted">> ELSE <<"cycle">>)
                   \o (IF cycAbort THEN abortEvents(cl3, abCancel2) ELSE <<>>)
                   \o (IF cont THEN <<>> ELSE <<"complete">>)
        /\ timers' = IF cont /\ asyncArg THEN delayFn(c, "cycle") ELSE timers
        /\ pc' = IF cont THEN (IF asyncArg THEN "idle" ELSE "cycle")
                 ELSE (IF queue # <<>> THEN "evaluate" ELSE "idle")
  /\ last' = NoCall
  /\ UNCHANGED <<cycleEvent, nClones, evMap, body, queue, elapsed, initCount0, minSamples0,
                 index, cur, asyncArg, log, runs, calls, ghost>>
  /\ UNCHANGED <<inv, unit>>

\* mean * count, as a fraction (times.cycle = mean * bench.count).
FracScale(f, n) == IF f[2] = 0 THEN Inf ELSE Norm(<<f[1] * n, f[2]>>)

\* A budget advanced at every evaluation.
BudgetAlways(size, clone) == elapsed + (now - clone.tTimeStamp)
\* compute.evaluate, line 215: the budget is advanced only when the left
\* operand of && holds.
Budget(size, clone) ==
  IF size >= minSamples0 THEN elapsed + (now - clone.tTimeStamp) ELSE elapsed

\* compute.evaluate, line 215.
MaxedOut(size, clone) ==
  size >= minSamples0 /\ Budget(size, clone) > bench.maxTime

\* An evaluate that never queues another clone.
ShouldEnqueueNever(q, maxedOut) == FALSE
\* compute.evaluate, line 270: pre-seed the next clone.
ShouldEnqueue(q, maxedOut) == Len(q) < 2 /\ ~maxedOut

\* A stop that leaves initCount as the last cycle set it.
stopRunKeepCount(b) ==
  [b EXCEPT !.running = FALSE, !.tElapsed = now - b.tTimeStamp]
\* compute.evaluate, lines 256-262: the run is over.
stopRun(b) ==
  [b EXCEPT !.initCount = initCount0, !.running = FALSE,
            !.tElapsed = now - b.tTimeStamp]

\* The first half of the invoker's getNext() after a synchronous clone has
\* returned from run(): the 'cycle' callback, compute.evaluate, which sets
\* cycleEvent.aborted = done.
Evaluate ==
  /\ pc = "evaluate"
  /\ LET clone == clones[cur]
         done0 == bench.aborted
         pushed == Append(bench.sample, clone.tPeriod)
         size0 == Len(pushed)
         early == done0 \/ clone.hz = Inf
         maxedOut == early \/ MaxedOut(size0, clone)
         sample1 == IF early THEN <<>> ELSE pushed
         queue1 == IF early THEN <<>> ELSE queue
         mean == getMean(sample1)
         b1 == [bench EXCEPT !.sample = sample1]
         b2 == IF done0 THEN b1 ELSE [b1 EXCEPT !.mean = mean]
         b3 == IF ~done0 /\ maxedOut THEN stopRun(b2) ELSE b2
         b4 == IF ~done0 /\ b3.hz # Inf
               THEN [b3 EXCEPT !.hz = FracInv(mean),
                               !.tCycle = FracScale(mean, b3.count),
                               !.tPeriod = mean]
               ELSE b3
         more == ShouldEnqueue(queue1, maxedOut)
     IN /\ more => nClones < MaxClones
        /\ bench' = b4
        /\ elapsed' = Budget(size0, clone)
        /\ nClones' = IF more THEN nClones + 1 ELSE nClones
        /\ clones' = IF more THEN [clones EXCEPT ![nClones + 1] = NewBenchmark]
                     ELSE clones
        /\ evMap' = IF more THEN [evMap EXCEPT ![nClones + 1] = FALSE] ELSE evMap
        /\ queue' = IF more THEN enqueue(queue1) ELSE queue1
        /\ cycleEvent' = (done0 \/ maxedOut)
        /\ ghost' = [ghost EXCEPT
                        !.sumAll = @ + (now - clone.tTimeStamp),
                        !.sumLate = IF size0 >= minSamples0
                                    THEN @ + (now - clone.tTimeStamp) ELSE @,
                        !.evaluated = @ + 1,
                        !.size = size0,
                        !.early = early,
                        !.maxedOut = maxedOut,
                        !.unclockable = clone.hz = Inf]
  /\ pc' = "getNext"
  /\ last' = NoCall
  /\ UNCHANGED <<body, initCount0, minSamples0, index, cur, asyncArg, timers,
                 now, log, clog, runs, calls>>
  /\ UNCHANGED <<inv, unit>>

\* compute's onComplete callback emitting 'complete' twice.
onCompleteTwice(events) == events \o <<"complete", "complete">>
\* compute's onComplete callback: bench.emit('complete').
onComplete(events) == Append(events, "complete")

\* raiseIndex() with `queued`: index++, the previous bench is shifted out
\* once index > 0.
raiseIndex(q) == IF index + 1 > 0 THEN Tail(q) ELSE q

\* The second half of getNext(): unless cycleEvent.aborted, raiseIndex()
\* and the next clone (executed in the same while-loop); otherwise, or
\* when the queue is exhausted, the 'complete' callback.
GetNext ==
  /\ pc = "getNext"
  /\ LET queue1 == IF cycleEvent THEN queue ELSE raiseIndex(queue)
         finished == cycleEvent \/ queue1 = <<>>
     IN /\ queue' = queue1
        /\ index' = IF cycleEvent THEN index ELSE index + 1
        /\ cur' = IF finished THEN cur ELSE Head(queue1)
        /\ log' = IF finished THEN onComplete(log) ELSE log
        /\ pc' = IF finished THEN "idle" ELSE "execute"
  /\ last' = NoCall
  /\ UNCHANGED <<bench, clones, nClones, evMap, body, elapsed, initCount0,
                 minSamples0, cycleEvent, asyncArg, timers, now, clog, runs,
                 calls, ghost>>
  /\ UNCHANGED <<inv, unit>>

Next ==
  \/ \E async \in BOOLEAN, cancelled \in BOOLEAN : Run(async, cancelled)
  \/ \E cancelled \in BOOLEAN : Abort(cancelled)
  \/ \E cancelled \in BOOLEAN : Reset(cancelled)
  \/ ExecuteTimer
  \/ Execute
  \/ Cycle
  \/ Evaluate
  \/ GetNext

Spec == Init /\ [][Next]_vars

\* ------------------------------------------- a clone driven on its own
\* A benchmark X (id 1) whose _original is B and whose `events` is the Map
\* of its constructor, so that its listeners run: run() on it goes to
\* cycle(X, {async}) and not through compute() and invoke().
\* X.defer may have been set; B.aborted, which only Deferred.resolve reads,
\* may then be left set by an earlier abort() of B.
CloneInit ==
  /\ InitCommon
  /\ \E d \in BOOLEAN, a \in BOOLEAN :
       /\ a => d
       /\ bench = [NewBenchmark EXCEPT !.aborted = a]
       /\ clones = [c \in CloneIds |->
                     IF c = 1 THEN [NewBenchmark EXCEPT !.defer = d]
                     ELSE NewBenchmark]
  /\ evMap = [c \in CloneIds |-> c = 1]
  /\ nClones = 1
  /\ cur = 1
  /\ inv = NoInvoke
  /\ unit = NoUnit

\* createCompiled: Function(args, body) succeeds unless the body is the
\* deferred template, whose last line `return { uid: "..." }'` ends in an
\* unterminated string literal (clock.ts:87): a SyntaxError is thrown.
createCompiled(deferred) == ~deferred

\* X.run({async}): prologue, 'start', then the first cycle(X) in the same
\* call unless a start listener cancelled the event; for a deferred X
\* `new Deferred(X)` and clock(deferred) instead, which throws out of run()
\* when the batch cannot be compiled.  It is not called while a callback of
\* X is still pending.
CloneRun(async, cancelled) ==
  /\ pc = "idle" /\ runs < MaxCloneRuns
  /\ \A t \in timers : t.owner # 1
  /\ runs' = runs + 1
  /\ clones' = [clones EXCEPT ![1] = runPrologue(@)]
  /\ clog' = IF cancelled THEN <<"start", "cancel">> ELSE <<"start">>
  /\ last' = Call("run", 1, cancelled, clog)
  /\ asyncArg' = async
  /\ IF cancelled \/ clones[1].defer THEN UNCHANGED body
     ELSE \E k \in Bodies : body' = [body EXCEPT ![1] = k]
  /\ IF cancelled
     THEN pc' = "idle" /\ UNCHANGED ghost
     ELSE IF createCompiled(clones[1].defer)
     THEN pc' = "cycle" /\ UNCHANGED ghost
     ELSE pc' = "idle" /\ ghost' = [ghost EXCEPT !.uncaught = 1]
  /\ UNCHANGED <<cycleEvent, bench, nClones, evMap, queue, elapsed,
                 initCount0, minSamples0, index, cur, timers, now, log,
                 calls>>
  /\ UNCHANGED <<inv, unit>>

\* X.abort() called by the user.
CloneAbort(cancelled) ==
  /\ pc = "idle" /\ calls < MaxCalls
  /\ calls' = calls + 1
  /\ clones' = [clones EXCEPT ![1] = abort(@, cancelled, FALSE)]
  /\ clog' = clog \o abortEvents(clones[1], cancelled)
  /\ timers' = IF clones[1].running /\ ~cancelled THEN clearTimeout(1)
               ELSE timers
  /\ last' = Call("abort", 1, cancelled, clog)
  /\ UNCHANGED <<cycleEvent, bench, nClones, evMap, body, queue, elapsed,
                 initCount0, minSamples0, index, cur, asyncArg, pc, now, log,
                 runs, ghost>>
  /\ UNCHANGED <<inv, unit>>

\* X.reset() called by the user: aborts first when X is running.
CloneReset(cancelled) ==
  /\ pc = "idle" /\ calls < MaxCalls
  /\ calls' = calls + 1
  /\ clones' = [clones EXCEPT ![1] = reset(@, cancelled)]
  /\ clog' = clog \o abortEvents(clones[1], cancelled)
  /\ timers' = IF clones[1].running THEN clearTimeout(1) ELSE timers
  /\ last' = Call("reset", 1, cancelled, clog)
  /\ UNCHANGED <<cycleEvent, bench, nClones, evMap, body, queue, elapsed,
                 initCount0, minSamples0, index, cur, asyncArg, pc, now, log,
                 runs, ghost>>
  /\ UNCHANGED <<inv, unit>>

\* The callback clone.delayFn registered in cycle() fires: cycle(clone,
\* options) runs next.
CycleTimer ==
  /\ pc = "idle"
  /\ \E t \in timers :
       /\ t.cb = "cycle"
       /\ timers' = timers \ {t}
       /\ cur' = t.owner
  /\ pc' = "cycle"
  /\ last' = NoCall
  /\ UNCHANGED <<cycleEvent, bench, clones, nClones, evMap, body, queue,
                 elapsed, initCount0, minSamples0, index, asyncArg, now, log,
                 clog, runs, calls, ghost>>
  /\ UNCHANGED <<inv, unit>>

CloneNext ==
  \/ \E async \in BOOLEAN, cancelled \in BOOLEAN : CloneRun(async, cancelled)
  \/ \E cancelled \in BOOLEAN : CloneAbort(cancelled)
  \/ \E cancelled \in BOOLEAN : CloneReset(cancelled)
  \/ CycleTimer
  \/ Cycle

CloneSpec == CloneInit /\ [][CloneNext]_vars

\* ------------------------------------------ invoke() over a list of objects
\* The invoker on its own: invoke(benches, {name, args, queued, onStart,
\* onCycle, onComplete}) over a list of one to MaxList objects.  An object
\* is a Benchmark, a Benchmark whose defer field is true, or anything else;
\* the method invoked is 'run' or another method.  inv.pc is the function of
\* the closure that runs next: "invoke" (the call itself), "execute" (in a
\* while loop), "waiting" (a bench.delayFn(execute) timer is pending),
\* "getNext", and, once nothing of the invoker can run any more, "returned"
\* (onComplete notified), "stalled" (an asynchronous run that never emits
\* 'complete') or "threw" (isAsync threw a TypeError).

\* isAsync(object): finalName === 'run' && object instanceof Benchmark &&
\* ((async == null ? object.options.async : async) && support.timeout ||
\* object.defer).  object.options is undefined (see the header), so reading
\* object.options.async throws; support.timeout is true.
isAsync(v, o) ==
  IF ~(v.run /\ v.kind[o] # "object") THEN "sync"
  ELSE IF v.async = "null" THEN "throw"
  ELSE IF v.async = "true" \/ v.kind[o] = "deferred" THEN "async"
  ELSE "sync"

\* Benchmark.run(args) of a benchmark of the list emits 'complete' before it
\* returns when its clones are cycled synchronously (compute's onComplete);
\* with {async: true} every clone waits in clone.delayFn(execute) and that
\* execute() throws at bench.on (the clone's `events` is a plain object), so
\* 'complete' is never emitted.
runCompletes(v) == v.async = "false"

\* What the method returns: Benchmark.run returns `this`; any other method
\* returns a value of its own.
methodValue(v, o) == Slot(o, ~(v.run /\ v.kind[o] # "object"))

\* A raiseIndex that never removes the previous bench from the list.
raiseIndexNoShift(v) ==
  LET i == v.index + 1
      b == v.benches
      more == IF v.queued THEN Len(b) > i ELSE i < Len(v.result)
  IN [v EXCEPT !.index = IF more THEN i ELSE IndexFalse, !.benches = b]
\* raiseIndex(): index++, in queued mode drop the previous bench, and at the
\* end of the list index = false.
raiseIndexOf(v) ==
  LET i == v.index + 1
      b == IF v.queued /\ i > 0 /\ v.benches # <<>> THEN Tail(v.benches)
           ELSE v.benches
      more == IF v.queued THEN Len(b) > 0 ELSE i < Len(v.result)
  IN [v EXCEPT !.index = IF more THEN i ELSE IndexFalse, !.benches = b]

\* The three ways invoke() and getNext() start the bench just chosen:
\* bench.delayFn(execute), `while (execute()) {}`, or the TypeError of
\* isAsync.
dispatch(v, how) ==
  LET a == isAsync(v, v.bench) IN
  IF a = "throw" THEN [v EXCEPT !.pc = "threw"]
  ELSE IF a = "async" THEN [v EXCEPT !.pc = "waiting", !.how = "timer"]
  ELSE [v EXCEPT !.pc = "execute", !.how = how]

\* A getNext that chooses the next bench whatever the cycle callback did.
exitEarlyNever(aborted, index0) == index0 = IndexFalse
\* getNext: `!cycleEvent.aborted && raiseIndex() !== false` fails.
exitEarly(aborted, index0) == aborted \/ index0 = IndexFalse

\* An off that leaves the listener registered.
offKept(ls, l) == ls
\* off(type, listener): the first occurrence of the listener is removed.
off(ls, l) ==
  IF \E i \in DOMAIN ls : ls[i] = l
  THEN LET k == CHOOSE i \in DOMAIN ls :
                  ls[i] = l /\ \A j \in 1..(i - 1) : ls[j] # l
       IN SubSeq(ls, 1, k - 1) \o SubSeq(ls, k + 1, Len(ls))
  ELSE ls

\* execute(): bench.on('complete', getNext) and
\* listeners.splice(0, 0, listeners.pop()): getNext becomes the first.
useFirst(ls) == <<"getNext">> \o ls

\* The listeners emit() calls before it reaches getNext in its copy of the
\* list.
before(ls) ==
  LET k == CHOOSE i \in DOMAIN ls : ls[i] = "getNext" /\ \A j \in 1..(i - 1) : ls[j] # "getNext"
  IN SubSeq(ls, 1, k - 1)

\* The notes of the listeners `ls` of object o invoked in turn.
invoked(o, ls) == [i \in DOMAIN ls |-> Note("listener", o, ls[i])]

\* Suite.run's onCycle: the suite emits 'error' for a bench whose error
\* field is set, then 'cycle'.
onCycleQuiet(o, aborted) ==
  <<Note("cycle", o, IF aborted THEN "aborted" ELSE "")>>
onCycle(o, aborted) ==
  (IF inv.suite /\ inv.error[o] THEN <<Note("error", o, "")>> ELSE <<>>)
    \o <<Note("cycle", o, IF aborted THEN "aborted" ELSE "")>>

\* The state at the call of invoke(): the list, the kinds of its objects,
\* the method and the options; result = benches.slice(), index = -1.
\* When the call is the one of Suite.run (inv.suite), the list is
\* suite.benchmarks, the method is 'run', the callbacks are Suite.run's,
\* suite.running has just been set, and inv.error[o] is the error field of
\* benchmark o as its run() leaves it (run() never writes it: reset()
\* changes nothing and compute.update is not invoked on the clones).
InvokeInit ==
  /\ InitCommon
  /\ unit = NoUnit
  /\ bench = NewBenchmark
  /\ clones = [c \in CloneIds |-> NewBenchmark]
  /\ evMap = [c \in CloneIds |-> FALSE]
  /\ nClones = 0
  /\ cur = 0
  /\ \E n \in 0..MaxList :
     \E kd \in [1..n -> Kinds], r \in BOOLEAN, a \in AsyncArgs, q \in BOOLEAN,
        su \in BOOLEAN, er \in [1..n -> BOOLEAN] :
       /\ su => r /\ \A i \in 1..n : kd[i] # "object"
       /\ ~su => \A i \in 1..n : ~er[i]
       /\ inv = [NoInvoke EXCEPT
                !.pc = "invoke",
                !.benches = [i \in 1..n |-> i],
                !.list0 = [i \in 1..n |-> i],
                !.result = [i \in 1..n |-> Slot(i, FALSE)],
                !.kind = [o \in ObjIds |-> IF o <= n THEN kd[o] ELSE "object"],
                !.listeners = [o \in ObjIds |->
                                 IF o <= n /\ kd[o] # "object"
                                 THEN UserListeners ELSE <<>>],
                !.error = [o \in ObjIds |-> o <= n /\ er[o]],
                !.suite = su, !.running = su,
                !.run = r, !.async = a, !.queued = q]

benchVars == << cycleEvent, bench, clones, nClones, evMap, body, queue, elapsed,
                initCount0, minSamples0, index, cur, asyncArg, timers, pc, now,
                log, clog, last, runs, calls, ghost, unit >>

\* An invoke() that calls onComplete when the list is empty.
InvokeMainCompletes ==
  /\ inv.pc = "invoke"
  /\ LET v1 == raiseIndexOf(inv) IN
     IF v1.index = IndexFalse
     THEN inv' = [v1 EXCEPT !.pc = "returned", !.running = FALSE,
                            !.notes = Append(@, Note("complete", 1, ""))]
     ELSE LET o == v1.result[v1.index + 1].o
              v2 == [v1 EXCEPT !.bench = o,
                               !.notes = Append(@, Note("start", o, ""))]
          IN inv' = dispatch(v2, "loop")
  /\ UNCHANGED benchVars

\* invoke(): the first raiseIndex(), onStart, and the start of the first
\* bench.  (The branch for a Suite aborted in onStart needs
\* `name === 'run'` and `benches instanceof Suite`; it is not taken for a
\* list.)
InvokeMain ==
  /\ inv.pc = "invoke"
  /\ LET v1 == raiseIndexOf(inv) IN
     IF v1.index = IndexFalse
     THEN inv' = [v1 EXCEPT !.pc = "returned"]
     ELSE LET o == v1.result[v1.index + 1].o
              v2 == [v1 EXCEPT !.bench = o,
                               !.notes = Append(@, Note("start", o, ""))]
          IN inv' = dispatch(v2, "loop")
  /\ UNCHANGED benchVars

\* execute(): for an asynchronous bench register getNext as its first
\* 'complete' listener; invoke the method; a synchronous bench is followed
\* by getNext() at once, an asynchronous one reaches getNext when it emits
\* 'complete' (here inside run(), or never).
execute(v) ==
  LET o == v.bench
      a == isAsync(v, o) = "async"
      ls == IF a THEN useFirst(v.listeners[o]) ELSE v.listeners[o]
      at == v.index + 1
      val == methodValue(v, o)
      res == IF at > Len(v.result) THEN Append(v.result, val)
             ELSE [v.result EXCEPT ![at] = val]
      called == Append(v.notes, Note("call", o, v.how))
  IN IF ~a
     THEN [v EXCEPT !.result = res, !.pc = "getNext",
                    !.notes = Append(called, Note("return", o, ""))]
     ELSE IF runCompletes(v)
     THEN [v EXCEPT !.result = res, !.listeners[o] = ls, !.pc = "getNext",
                    !.notes = Append(called, Note("emit", o, ""))
                                \o invoked(o, before(ls))]
     ELSE [v EXCEPT !.result = res, !.listeners[o] = ls, !.pc = "stalled",
                    !.notes = Append(called, Note("return", o, ""))]

\* execute() called by a `while (execute()) {}` loop.
InvokeExecute ==
  /\ inv.pc = "execute"
  /\ inv' = execute(inv)
  /\ UNCHANGED benchVars

\* execute() called by the timer of bench.delayFn(execute).
InvokeTimer ==
  /\ inv.pc = "waiting"
  /\ inv' = execute(inv)
  /\ UNCHANGED benchVars

\* getNext(): for an asynchronous bench off('complete', getNext) and
\* emit('complete'); the cycle callback, which may set cycleEvent.aborted
\* and may push an object onto the list; then the next bench or the
\* complete callback.  As a listener it sets event.aborted, so the emit()
\* that called it invokes no listener after it.
InvokeGetNext ==
  /\ inv.pc = "getNext"
  /\ \E aborted \in BOOLEAN,
        push \in IF Len(inv.pushed) < MaxAppend
                 THEN (IF inv.suite THEN Kinds \ {"object"} ELSE Kinds)
                        \cup {"none"}
                 ELSE {"none"} :
       LET o == inv.bench
           a == isAsync(inv, o) = "async"
           ls == IF a THEN off(inv.listeners[o], "getNext") ELSE inv.listeners[o]
           n1 == IF a
                 THEN Append(inv.notes, Note("listener", o, "getNext"))
                        \o invoked(o, ls)
                 ELSE inv.notes
           n2 == n1 \o onCycle(o, aborted)
           p == Len(inv.list0) + Len(inv.pushed) + 1
           v1 == [inv EXCEPT !.listeners[o] = ls, !.notes = n2]
           v2 == IF push = "none" THEN v1
                 ELSE [v1 EXCEPT !.benches = Append(@, p),
                                 !.pushed = Append(@, p),
                                 !.kind[p] = push,
                                 !.listeners[p] = IF push = "object" THEN <<>>
                                                  ELSE UserListeners]
           v3 == IF aborted THEN v2 ELSE raiseIndexOf(v2)
       IN IF exitEarly(aborted, v3.index)
          THEN inv' = [v3 EXCEPT !.pc = "returned", !.running = FALSE,
                                 !.notes = Append(@, Note("complete", o, ""))]
          ELSE LET nxt == IF v3.queued THEN Head(v3.benches)
                          ELSE v3.result[v3.index + 1].o
               IN inv' = dispatch([v3 EXCEPT !.bench = nxt],
                                  IF a THEN "nested" ELSE "loop")
  /\ UNCHANGED benchVars

InvokeNext ==
  \/ InvokeMain
  \/ InvokeExecute
  \/ InvokeTimer
  \/ InvokeGetNext

InvokeSpec == InvokeInit /\ [][InvokeNext]_vars

\* ------------------------------------------------------- timer selection
\* The variables of the benchmark lifecycle while a function is studied on
\* its own: no benchmark is run.
allVars == << cycleEvent, bench, clones, nClones, evMap, body, queue, elapsed,
              initCount0, minSamples0, index, cur, asyncArg, timers, pc, now,
              log, clog, last, runs, calls, ghost, inv >>
NoLifecycle ==
  /\ InitCommon
  /\ bench = NewBenchmark
  /\ clones = [c \in CloneIds |-> NewBenchmark]
  /\ evMap = [c \in CloneIds |-> FALSE]
  /\ nClones = 0
  /\ cur = 0
  /\ inv = NoInvoke

\* a < b for fractions, Infinity included.
FracLt(a, b) == a[1] * b[2] < b[1] * a[2]

\* What a measurement of a timer may return: nothing measurable (0, a
\* broken timer) or a positive number of ticks.
Measured == {0, 1, 2}

\* getResolution: up to `count` measurements; a measurement that is not
\* positive pushes Infinity and stops; the result is getMean(sample).
RECURSIVE sampleOf(_)
sampleOf(ms) ==
  IF ms = <<>> THEN <<>>
  ELSE IF Head(ms) > 0 THEN <<<<Head(ms), 1>>>> \o sampleOf(Tail(ms))
  ELSE <<Inf>>
getResolution(ms) == getMean(sampleOf(ms))

\* A timer factory: isSupported() and the measurements its create() makes.
Factories == [supported : BOOLEAN, measured : [1..MeasureCount -> Measured]]

\* lodash minBy(timers, 'resolution') over the created timers: the first
\* element whose resolution no earlier element undercuts and no element
\* beats; undefined (0) for an empty array.
minBy(ts) ==
  IF ts = <<>> THEN 0
  ELSE CHOOSE i \in DOMAIN ts :
         /\ \A j \in DOMAIN ts : ~FracLt(ts[j].resolution, ts[i].resolution)
         /\ \A j \in 1..(i - 1) : FracLt(ts[i].resolution, ts[j].resolution)

\* getHighestResolutionTimer over the factories fs: filter by isSupported,
\* create, minBy, and the test of timer.resolution, which reads a property
\* of undefined when no timer was created.
getHighestResolutionTimer(fs) ==
  LET sup == SelectSeq([i \in DOMAIN fs |-> [f |-> i, supported |-> fs[i].supported,
                                            resolution |-> getResolution(fs[i].measured)]],
                       LAMBDA t : t.supported)
      k == minBy(sup)
  IN IF k = 0 THEN [out |-> "TypeError", f |-> 0]
     ELSE IF sup[k].resolution = Inf
     THEN [out |-> "Unable to find a working timer.", f |-> 0]
     ELSE [out |-> "timer", f |-> sup[k].f]

TimerInit ==
  /\ NoLifecycle
  /\ \E n \in 0..MaxTimers : \E fs \in [1..n -> Factories] :
       unit = [pc |-> "timers", factories |-> fs, out |-> "", f |-> 0]

\* The module's `timer = getHighestResolutionTimer()`.
SelectTimer ==
  /\ unit.pc = "timers"
  /\ LET r == getHighestResolutionTimer(unit.factories)
     IN unit' = [unit EXCEPT !.pc = "selected", !.out = r.out, !.f = r.f]
  /\ UNCHANGED allVars

TimerNext == SelectTimer

TimerSpec == TimerInit /\ [][TimerNext]_vars

\* ------------------------------------------------------- on / off / emit
\* An object with the `events` Map of BaseEventListener, studied on its own:
\* listeners are registered and removed, then one event is emitted.
EventTypes == {"start", "cycle"}
\* on(types, ...) takes the types separated by spaces.
TypeLists == {<<"start">>, <<"cycle">>, <<"start", "cycle">>}
\* The listeners: what each does when invoked.  "false" returns false,
\* "abort" sets event.aborted, "both" does both.
ListenerIds == {"plain", "false", "abort", "both"}
ReturnsFalse(l) == l \in {"false", "both"}
SetsAborted(l) == l \in {"abort", "both"}

\* An on that puts the listener in front of the earlier ones.
onFront(events, types, e) ==
  [t \in EventTypes |->
     IF \E i \in DOMAIN types : types[i] = t
     THEN <<e>> \o events[t] ELSE events[t]]
\* on(types, listener): for each type, listeners = events.get(type) || [],
\* listeners.push(listener), events.set(type, listeners).
on(events, types, e) ==
  [t \in EventTypes |->
     IF \E i \in DOMAIN types : types[i] = t
     THEN Append(events[t], e) ELSE events[t]]

\* The loop of emit() over its copy of the listeners: each listener is
\* applied; a result of false sets event.cancelled; event.aborted breaks.
RECURSIVE emitLoop(_, _)
emitLoop(ls, ev) ==
  IF ls = <<>> THEN [invoked |-> <<>>, event |-> ev]
  ELSE LET l == Head(ls).l
           ev1 == [ev EXCEPT !.cancelled = @ \/ ReturnsFalse(l),
                             !.aborted = @ \/ SetsAborted(l)]
       IN IF ev1.aborted THEN [invoked |-> <<Head(ls)>>, event |-> ev1]
          ELSE LET r == emitLoop(Tail(ls), ev1)
               IN [invoked |-> <<Head(ls)>> \o r.invoked, event |-> r.event]

EmitInit ==
  /\ NoLifecycle
  /\ unit = [pc |-> "events", events |-> [t \in EventTypes |-> <<>>],
             ons |-> 0, offs |-> 0, invoked |-> <<>>,
             event |-> [type |-> "", cancelled |-> FALSE, aborted |-> FALSE]]

\* object.on(types, listener); the registration is numbered (n) so that
\* its order can be told afterwards.
On ==
  /\ unit.pc = "events" /\ unit.ons < MaxOn
  /\ \E types \in TypeLists, l \in ListenerIds :
       unit' = [unit EXCEPT
                  !.ons = @ + 1,
                  !.events = on(@, types, [l |-> l, n |-> unit.ons + 1])]
  /\ UNCHANGED allVars

\* object.off(type, listener) for a listener registered for the type.
Off ==
  /\ unit.pc = "events" /\ unit.offs < MaxOff
  /\ \E t \in EventTypes : \E i \in DOMAIN unit.events[t] :
       unit' = [unit EXCEPT
                  !.offs = @ + 1,
                  !.events[t] = off(@, unit.events[t][i])]
  /\ UNCHANGED allVars

\* object.emit(type).
Emit ==
  /\ unit.pc = "events"
  /\ \E t \in EventTypes :
       LET r == emitLoop(unit.events[t],
                         [type |-> t, cancelled |-> FALSE, aborted |-> FALSE])
       IN unit' = [unit EXCEPT !.pc = "emitted", !.invoked = r.invoked,
                               !.event = r.event]
  /\ UNCHANGED allVars

EmitNext ==
  \/ On
  \/ Off
  \/ Emit

EmitSpec == EmitInit /\ [][EmitNext]_vars

\* ---------------------------------------------------- Benchmark.compare
\* Critical Mann-Whitney U-values for 95% confidence: uTable[n][k] of
\* constants.ts:43-70, the row being indexed from 0 there and from 1 here.
uTable(n) ==
  CASE n = 5 -> <<0, 1, 2>> []
     n = 6 -> <<1, 2, 3, 5>> []
     n = 7 -> <<1, 3, 5, 6, 8>> []
     n = 8 -> <<2, 4, 6, 8, 10, 13>> []
     n = 9 -> <<2, 4, 7, 10, 12, 15, 17>> []
     n = 10 -> <<3, 5, 8, 11, 14, 17, 20, 23>> []
     n = 11 -> <<3, 6, 9, 13, 16, 19, 23, 26, 30>> []
     n = 12 -> <<4, 7, 11, 14, 18, 22, 26, 29, 33, 37>> []
     n = 13 -> <<4, 8, 12, 16, 20, 24, 28, 33, 37, 41, 45>> []
     n = 14 -> <<5, 9, 13, 17, 22, 26, 31, 36, 40, 45, 50, 55>> []
     n = 15 -> <<5, 10, 14, 19, 24, 29, 34, 39, 44, 49, 54, 59, 64>> []
     n = 16 -> <<6, 11, 15, 21, 26, 31, 37, 42, 47, 53, 59, 64, 70, 75>> []
     n = 17 -> <<6, 11, 17, 22, 28, 34, 39, 45, 51, 57, 63, 67, 75, 81, 87>> []
     n = 18 -> <<7, 12, 18, 24, 30, 36, 42, 48, 55, 61, 67, 74, 80, 86, 93, 99>> []
     n = 19 -> <<7, 13, 19, 25, 32, 38, 45, 52, 58, 65, 72, 78, 85, 92, 99, 106, 113>> []
     n = 20 -> <<8, 14, 20, 27, 34, 41, 48, 55, 62, 69, 76, 83, 90, 98, 105, 112, 119, 127>> []
     n = 21 -> <<8, 15, 22, 29, 36, 43, 50, 58, 65, 73, 80, 88, 96, 103, 111, 119, 126, 134, 142>> []
     n = 22 -> <<9, 16, 23, 30, 38, 45, 53, 61, 69, 77, 85, 93, 101, 109, 117, 125, 133, 141, 150, 158>> []
     n = 23 -> <<9, 17, 24, 32, 40, 48, 56, 64, 73, 81, 89, 98, 106, 115, 123, 132, 140, 149, 157, 166, 175>> []
     n = 24 -> <<10, 17, 25, 33, 42, 50, 59, 67, 76, 85, 94, 102, 111, 120, 129, 138, 147, 156, 165, 174, 183, 192>> []
     n = 25 -> <<10, 18, 27, 35, 44, 53, 62, 71, 80, 89, 98, 107, 117, 126, 135, 145, 154, 163, 173, 182, 192, 201, 211>> []
     n = 26 -> <<11, 19, 28, 37, 46, 55, 64, 74, 83, 93, 102, 112, 122, 132, 141, 151, 161, 171, 181, 191, 200, 210, 220, 230>> []
     n = 27 -> <<11, 20, 29, 38, 48, 57, 67, 77, 87, 97, 107, 118, 125, 138, 147, 158, 168, 178, 188, 199, 209, 219, 230, 240, 250>> []
     n = 28 -> <<12, 21, 30, 40, 50, 60, 70, 80, 90, 101, 111, 122, 132, 143, 154, 164, 175, 186, 196, 207, 218, 228, 239, 250, 261, 272>> []
     n = 29 -> <<13, 22, 32, 42, 52, 62, 73, 83, 94, 105, 116, 127, 138, 149, 160, 171, 182, 193, 204, 215, 226, 238, 249, 260, 271, 282, 294>> []
     n = 30 -> <<13, 23, 33, 43, 54, 65, 76, 87, 98, 109, 120, 131, 143, 154, 166, 177, 189, 200, 212, 223, 235, 247, 258, 270, 282, 293, 305, 317>>

\* The samples under study: `size` periods (none for a benchmark that has
\* not run), all equal to `lo` or
\* alternating between lo and lo + 1.
SampleSizes == (0..6) \cup {MaxSample - 1, MaxSample}
SampleShapes == [size : SampleSizes, lo : {1, 4}, spread : BOOLEAN]
sampleFrom(sh) ==
  [i \in 1..sh.size |-> sh.lo + (IF sh.spread THEN i % 2 ELSE 0)]

\* getScore, counted in halves: 0 for xB > xA, 2 for xB < xA, 1 for a tie.
RECURSIVE getScore(_, _)
getScore(xA, sampleB) ==
  IF sampleB = <<>> THEN 0
  ELSE (IF Head(sampleB) > xA THEN 0 ELSE IF Head(sampleB) < xA THEN 2 ELSE 1)
         + getScore(xA, Tail(sampleB))
\* getU, in halves as well.
RECURSIVE getU(_, _)
getU(sampleA, sampleB) ==
  IF sampleA = <<>> THEN 0
  ELSE getScore(Head(sampleA), sampleB) + getU(Tail(sampleA), sampleB)

\* Math.abs(getZ(u)) > 1.96, squared and cleared of fractions:
\* z^2 = 3 (2u - n1 n2)^2 / (n1 n2 (n1 + n2 + 1)) and 1.96^2 = 2401 / 625.
zAbove(u2, size1, size2) ==
  1875 * (u2 - size1 * size2) * (u2 - size1 * size2)
    > 2401 * size1 * size2 * (size1 + size2 + 1)

Min(a, b) == IF a < b THEN a ELSE b
Max(a, b) == IF a > b THEN a ELSE b

\* A compare whose large-sample branch always rejects the null hypothesis.
compareNoZ(same, sample1, sample2) ==
  IF same THEN 0
  ELSE LET size1 == Len(sample1)
           size2 == Len(sample2)
           maxSize == Max(size1, size2)
           minSize == Min(size1, size2)
           u1 == getU(sample1, sample2)
           u2 == getU(sample2, sample1)
           u == Min(u1, u2)
           critical == IF maxSize < 5 \/ minSize < 3 THEN 0
                       ELSE uTable(maxSize)[minSize - 2]
       IN IF size1 + size2 > 30
          THEN (IF u = u1 THEN 1 ELSE -1)
          ELSE IF u <= 2 * critical THEN (IF u = u1 THEN 1 ELSE -1) ELSE 0
\* A compare() that reports every significant difference as "faster".
compareUnsigned(same, sample1, sample2) ==
  IF same THEN 0
  ELSE LET size1 == Len(sample1)
           size2 == Len(sample2)
           maxSize == Max(size1, size2)
           minSize == Min(size1, size2)
           u1 == getU(sample1, sample2)
           u2 == getU(sample2, sample1)
           u == Min(u1, u2)
           critical == IF maxSize < 5 \/ minSize < 3 THEN 0
                       ELSE uTable(maxSize)[minSize - 2]
       IN IF size1 + size2 > 30
          THEN (IF zAbove(u, size1, size2) THEN 1 ELSE 0)
          ELSE IF u <= 2 * critical THEN 1 ELSE 0
\* this.compare(other); `same` is `this == other`.
compare(same, sample1, sample2) ==
  IF same THEN 0
  ELSE LET size1 == Len(sample1)
           size2 == Len(sample2)
           maxSize == Max(size1, size2)
           minSize == Min(size1, size2)
           u1 == getU(sample1, sample2)
           u2 == getU(sample2, sample1)
           u == Min(u1, u2)
           critical == IF maxSize < 5 \/ minSize < 3 THEN 0
                       ELSE uTable(maxSize)[minSize - 2]
       IN IF size1 + size2 > 30
          THEN (IF zAbove(u, size1, size2) THEN (IF u = u1 THEN 1 ELSE -1) ELSE 0)
          ELSE IF u <= 2 * critical THEN (IF u = u1 THEN 1 ELSE -1) ELSE 0

\* Two benchmarks A and B with the samples their runs left.
CompareInit ==
  /\ NoLifecycle
  /\ \E a \in SampleShapes, b \in SampleShapes :
       unit = [pc |-> "samples", a |-> sampleFrom(a), b |-> sampleFrom(b),
               ab |-> 0, ba |-> 0, aa |-> 0]

\* A.compare(B), B.compare(A) and A.compare(A).
Compare ==
  /\ unit.pc = "samples"
  /\ unit' = [unit EXCEPT !.pc = "compared",
                          !.ab = compare(FALSE, unit.a, unit.b),
                          !.ba = compare(FALSE, unit.b, unit.a),
                          !.aa = compare(TRUE, unit.a, unit.a)]
  /\ UNCHANGED allVars

CompareNext == Compare

CompareSpec == CompareInit /\ [][CompareNext]_vars

\* --------------------------------------- cycle(): one count computation
\* The count a clone may hold when its batch is clocked: the default
\* initCount, the counts cycle() raises to, and their neighbours.
Counts == {1, 975, 976, 977, 7812, 62500, 500000, 500001}

\* What a batch short of minTime may have measured: 0 or one tick.
ShortClocks == {0, 1}

\* A running clone whose batch of `count` iterations at cycle number
\* `cycles` measured `clocked` < minTime.
CountInit ==
  /\ NoLifecycle
  /\ \E n \in Counts, k \in 1..MaxCycle, t \in ShortClocks :
       unit = [pc |-> "clocked", count |-> n, cycles |-> k, clocked |-> t,
               minTime |-> MinTime, next |-> n, running |-> TRUE]

\* cycle(), lines 86-102: the count of the next cycle and whether there
\* is one.
CountCycle ==
  /\ unit.pc = "clocked"
  /\ LET next == NextCount(unit.count, unit.cycles, unit.clocked, unit.minTime)
     IN unit' = [unit EXCEPT !.pc = "counted", !.next = next,
                             !.running = unit.clocked < unit.minTime
                                         /\ next # CountInf]
  /\ UNCHANGED allVars

CountNext == CountCycle

CountSpec == CountInit /\ [][CountNext]_vars

\* ------------------------------------------------- clock(): the pre-tests
\* One call of clock(clone) for a synchronous clone whose test is not
\* empty.  The test body is described by what its first two invocations
\* do: return, throw a truthy value or throw a falsy value (null, 0, '');
\* later invocations return.
Outcomes == {"ok", "error", "falsy"}

\* Values of clone.error: none, a value left by an earlier cycle, the
\* value thrown by invocation n of the body, an Error made from it, or
\* the TypeError of clock() itself.
NoErr == [kind |-> "none", n |-> 0]
StaleErr == [kind |-> "stale", n |-> 0]
TypeErr == [kind |-> "TypeError", n |-> 0]
thrownBy(n) == [kind |-> "thrown", n |-> n]

\* `e || new Error(String(e))` for the value thrown by invocation n.
caught(n, outcome) ==
  IF outcome = "error" THEN thrownBy(n) ELSE [kind |-> "wrapped", n |-> n]

\* The catch of the second pre-test, were it to overwrite clone.error.
keepLast(error, e) == e

\* The catch of the second pre-test: `if (!clone.error) clone.error = ...`.
keepFirst(error, e) == IF error = NoErr THEN e ELSE error

ClockInit ==
  /\ NoLifecycle
  /\ \E d \in BOOLEAN, n \in 1..MaxBatch, o \in [1..2 -> Outcomes],
        e \in {NoErr, StaleErr} :
       unit = [pc |-> "clock", decompilable |-> d, count |-> n,
               outcome |-> o, error |-> e, compiled |-> "normal",
               calls |-> 0, batches |-> 0, timed |-> 0, result |-> 0]

\* The first pre-test (lines 207-228).  It runs only when the test is
\* decompilable; the comparison that follows it reads this.templateData
\* in a function called without a receiver, which throws a TypeError
\* inside the try block.  In every case `compiled` is null afterwards.
ClockPretest ==
  /\ unit.pc = "clock"
  /\ unit' = IF unit.decompilable
             THEN [unit EXCEPT !.pc = "fallback", !.calls = 1,
                               !.compiled = "none",
                               !.error = IF unit.outcome[1] = "ok" THEN TypeErr
                                         ELSE caught(1, unit.outcome[1])]
             ELSE [unit EXCEPT !.pc = "fallback", !.compiled = "none"]
  /\ UNCHANGED allVars

\* The fallback pre-test (lines 231-248): one more invocation of the body
\* through the indirect-call shape.
ClockFallback ==
  /\ unit.pc = "fallback"
  /\ LET n == unit.calls + 1
         o == unit.outcome[n]
     IN unit' = [unit EXCEPT !.pc = "batch", !.calls = n,
                             !.compiled = "fallback",
                             !.error = IF o = "ok" THEN NoErr
                                       ELSE keepFirst(unit.error, caught(n, o))]
  /\ UNCHANGED allVars

\* The real batch (lines 250-260): `count` iterations between the start
\* and the stop of the timer, one tick each, unless clone.error is set.
ClockBatch ==
  /\ unit.pc = "batch"
  /\ unit' = IF unit.error = NoErr
             THEN [unit EXCEPT !.pc = "returned", !.batches = @ + 1,
                               !.timed = unit.count,
                               !.calls = @ + unit.count,
                               !.result = unit.count]
             ELSE [unit EXCEPT !.pc = "returned"]
  /\ UNCHANGED allVars

ClockNext == ClockPretest \/ ClockFallback \/ ClockBatch

ClockSpec == ClockInit /\ [][ClockNext]_vars

\* ------------------------------------- abort() and reset(): the guards
\* Two benchmarks X and Y and the process-wide flags calledBy.abort and
\* calledBy.reset.  The calls are followed frame by frame: unit.stack is
\* the call stack, each frame a call of abort or reset on one benchmark,
\* made by the user (at top level or from a listener) or by the code.
\* The abort listener of Y may call X.reset() or X.abort() (unit.hook).
Objs == {"X", "Y"}
Hooks == {"none", "reset", "abort"}
NoFrame == [fn |-> "none", obj |-> "X", by |-> "user", ran0 |-> FALSE,
            emitted |-> <<>>]

\* A call of fn on obj made now.
Frame(fn, obj, by) ==
  [fn |-> fn, obj |-> obj, at |-> "enter", by |-> by, resetting |-> FALSE,
   cancelled |-> FALSE, ran0 |-> unit.running[obj], ev0 |-> Len(unit.events)]

\* The record of the call that returns: what it was and what was emitted
\* while it ran.
Return(f, events) ==
  [fn |-> f.fn, obj |-> f.obj, by |-> f.by, ran0 |-> f.ran0,
   emitted |-> SubSeq(events, f.ev0 + 1, Len(events))]

Top == unit.stack[Len(unit.stack)]
Pop(st) == SubSeq(st, 1, Len(st) - 1)
SetTop(st, f) == [st EXCEPT ![Len(st)] = f]

\* A reset() that never aborts.
mustAbortNever(running, calledByAbort) == FALSE

\* A reset() that aborts whenever the benchmark is running.
mustAbortAlways(running, calledByAbort) == running

\* reset(), line 675: `this.running && !calledBy.abort`.
mustAbort(running, calledByAbort) == running /\ ~calledByAbort

GuardInit ==
  /\ NoLifecycle
  /\ \E r \in [Objs -> BOOLEAN], h \in Hooks :
       unit = [pc |-> "guard", stack |-> <<>>,
               calledBy |-> [abort |-> FALSE, reset |-> FALSE],
               running |-> r, aborted |-> [o \in Objs |-> FALSE],
               timerId |-> r, events |-> <<>>, hook |-> h,
               calls |-> 0, steps |-> 0, last |-> NoFrame]

\* The user calls abort() or reset() on X or Y.
GuardCall ==
  /\ unit.pc = "guard" /\ unit.stack = <<>> /\ unit.calls < MaxGuardCalls
  /\ \E fn \in {"abort", "reset"}, o \in Objs :
       unit' = [unit EXCEPT !.stack = <<Frame(fn, o, "user")>>,
                            !.calls = @ + 1, !.steps = 0]
  /\ UNCHANGED allVars

\* abort(), lines 638-643: resetting is read, and a running benchmark
\* emits 'abort'; its listeners return false or not, and the one of Y may
\* call a method of X.
AbortEnter ==
  /\ unit.pc = "guard" /\ unit.stack # <<>>
  /\ Top.fn = "abort" /\ Top.at = "enter"
  /\ IF unit.running[Top.obj]
     THEN \E c \in BOOLEAN :
            LET f == [Top EXCEPT !.at = "emitted", !.cancelled = c,
                                 !.resetting = unit.calledBy.reset]
                ev == Append(unit.events, <<Top.obj, "abort">>)
                st == SetTop(unit.stack, f)
                called == [Frame(unit.hook, "X", "user")
                             EXCEPT !.ev0 = Len(ev)]
            IN unit' = [unit EXCEPT
                          !.events = ev, !.steps = @ + 1,
                          !.stack = IF Top.obj = "Y" /\ unit.hook # "none"
                                    THEN Append(st, called) ELSE st]
     ELSE unit' = [unit EXCEPT !.stack = Pop(@), !.steps = @ + 1,
                               !.last = Return(Top, unit.events)]
  /\ UNCHANGED allVars

\* abort(), lines 645-649: unless the event was cancelled outside a
\* reset, calledBy.abort is set and reset() is called.
AbortEmitted ==
  /\ unit.pc = "guard" /\ unit.stack # <<>>
  /\ Top.fn = "abort" /\ Top.at = "emitted"
  /\ IF ~Top.cancelled \/ Top.resetting
     THEN unit' = [unit EXCEPT
                     !.calledBy.abort = TRUE, !.steps = @ + 1,
                     !.stack = Append(SetTop(@, [Top EXCEPT !.at = "back"]),
                                      Frame("reset", Top.obj, "code"))]
     ELSE unit' = [unit EXCEPT !.stack = Pop(@), !.steps = @ + 1,
                               !.last = Return(Top, unit.events)]
  /\ UNCHANGED allVars

\* abort(), lines 651-661: calledBy.abort is cleared, the timer is
\* cleared and, outside a reset, the benchmark is marked aborted.
AbortBack ==
  /\ unit.pc = "guard" /\ unit.stack # <<>>
  /\ Top.fn = "abort" /\ Top.at = "back"
  /\ unit' = [unit EXCEPT
                !.calledBy.abort = FALSE, !.steps = @ + 1,
                !.timerId[Top.obj] = FALSE,
                !.aborted[Top.obj] = IF Top.resetting THEN @ ELSE TRUE,
                !.running[Top.obj] = IF Top.resetting THEN @ ELSE FALSE,
                !.stack = Pop(@), !.last = Return(Top, unit.events)]
  /\ UNCHANGED allVars

\* reset(), lines 675-679 and the traversal below them, which finds no
\* change and emits no 'reset' event.
ResetEnter ==
  /\ unit.pc = "guard" /\ unit.stack # <<>>
  /\ Top.fn = "reset" /\ Top.at = "enter"
  /\ IF mustAbort(unit.running[Top.obj], unit.calledBy.abort)
     THEN unit' = [unit EXCEPT
                     !.calledBy.reset = TRUE, !.steps = @ + 1,
                     !.stack = Append(SetTop(@, [Top EXCEPT !.at = "back"]),
                                      Frame("abort", Top.obj, "code"))]
     ELSE unit' = [unit EXCEPT !.stack = Pop(@), !.steps = @ + 1,
                               !.last = Return(Top, unit.events)]
  /\ UNCHANGED allVars

\* reset(), lines 679-681: calledBy.reset is cleared and reset() returns.
ResetBack ==
  /\ unit.pc = "guard" /\ unit.stack # <<>>
  /\ Top.fn = "reset" /\ Top.at = "back"
  /\ unit' = [unit EXCEPT !.calledBy.reset = FALSE, !.steps = @ + 1,
                          !.stack = Pop(@),
                          !.last = Return(Top, unit.events)]
  /\ UNCHANGED allVars

GuardNext ==
  \/ GuardCall
  \/ AbortEnter
  \/ AbortEmitted
  \/ AbortBack
  \/ ResetEnter
  \/ ResetBack

GuardSpec == GuardInit /\ [][GuardNext]_vars

TypeOK ==
  /\ pc \in {"idle", "execute", "cycle", "evaluate", "getNext"}
  /\ nClones \in 0..MaxClones
  /\ Len(queue) <= 2

\* ---------------------------------------------------------------- claims
\* The events of a log, without the marks "cancel", "aborted" and "clock".
Events(s) == SelectSeq(s, LAMBDA e : e \notin {"cancel", "aborted", "clock"})
Occurrences(s, e) == Cardinality({i \in DOMAIN s : s[i] = e})
LastOf(s) == IF s = <<>> THEN "none" ELSE s[Len(s)]
Running == {c \in 1..nClones : clones[c].running}
\* No code is running and no callback is pending.
Quiescent == pc = "idle" /\ timers = {}

C3_Exclusive == ~(bench.running /\ bench.aborted)

\* C4 as stated: when complete is emitted on B the sample holds at least
\* minSamples periods, or B is aborted, or B.error is set.
C4_SampleAsStated ==
  LastOf(log) = "complete"
     => \/ Len(bench.sample) >= bench.minSamples
        \/ bench.aborted
        \/ bench.error # NoError

\* C4: when complete is emitted on B the sample holds at least minSamples
\* periods, or B is aborted, or B.error is set, or the last clone was
\* unclockable (hz infinite) and the sample is empty.
C4_Sample ==
  LastOf(log) = "complete"
     => \/ Len(bench.sample) >= bench.minSamples
        \/ bench.aborted
        \/ bench.error # NoError
        \/ (ghost.unclockable /\ bench.sample = <<>>)

\* A run that completed on the sample size: two periods with minSamples 2.
C4_Witness ==
  /\ LastOf(log) = "complete" /\ ~bench.aborted /\ ~ghost.unclockable
  /\ bench.minSamples = 2 /\ Len(bench.sample) >= 2

After(s, i) == {s[j] : j \in (i + 1)..Len(s)}
\* Entry i of the log s, "none" beyond its end.
At(s, i) == IF i \in DOMAIN s THEN s[i] ELSE "none"

\* C6 as stated: once X is at rest, for every cycle event on which a
\* listener set event.aborted, X is aborted and not running, complete
\* followed and neither a batch nor a cycle event did.
C6_CycleAbortAsStated ==
  Quiescent
     => \A i \in DOMAIN clog :
          clog[i] = "aborted"
             => /\ clones[cur].aborted /\ ~clones[cur].running
                /\ "complete" \in After(clog, i)
                /\ After(clog, i) \cap {"clock", "cycle"} = {}

\* C6: for every cycle event on which a listener set event.aborted: when
\* the clone was still running and no abort listener cancelled the abort
\* event, the clone ends aborted and not running, complete is emitted next
\* and nothing is clocked or emitted after it; when the batch had already
\* reached minTime the clone is not running, abort() does nothing and
\* complete is emitted next, `aborted` being left as it was.
C6_CycleAbort ==
  \A i \in DOMAIN clog :
     clog[i] = "aborted"
        => /\ (At(clog, i + 1) = "abort" /\ At(clog, i + 2) # "cancel")
                => /\ At(clog, i + 2) = "complete" /\ Len(clog) = i + 2
                   /\ clones[cur].aborted /\ ~clones[cur].running
           /\ At(clog, i + 1) # "abort"
                => /\ At(clog, i + 1) = "complete" /\ Len(clog) = i + 1
                   /\ ~clones[cur].running

\* A cycle listener set event.aborted on a cycle that was to be followed
\* by another one, and X ended aborted with complete emitted.
C6_Witness ==
  \E i \in DOMAIN clog :
     /\ clog[i] = "aborted" /\ At(clog, i + 1) = "abort"
     /\ At(clog, i + 2) = "complete"
     /\ clones[cur].aborted /\ ~clones[cur].running

\* C7: reset() on a benchmark that has finished a run leaves it as it was
\* just after construction: configuration unchanged, sample empty, stats,
\* count, cycles, hz and times zero, no error, neither aborted nor running.
C7_Reset ==
  (last.op = "reset" /\ last.target = 0 /\ ~last.pre.running
     /\ "complete" \in After(log, 0))
     => /\ bench.minSamples = last.pre.minSamples
        /\ bench.maxTime = last.pre.maxTime
        /\ bench.sample = <<>> /\ bench.mean = Zero
        /\ bench.count = 0 /\ bench.cycles = 0 /\ bench.hz = Zero
        /\ bench.tCycle = Zero /\ bench.tElapsed = 0 /\ bench.tPeriod = Zero
        /\ bench.tTimeStamp = 0
        /\ bench.error = NoError /\ ~bench.aborted /\ ~bench.running

\* C8: the clone queue of compute() never holds more than two clones and
\* at most one clone is running.
C8_Queue == Len(queue) <= 2 /\ Cardinality(Running) <= 1

\* evaluate() has pre-seeded the next clone: the queue holds two.
C8_Witness == Len(queue) = 2 /\ pc = "getNext" /\ ghost.evaluated >= 1

\* C9 as stated: after an evaluation the budget is the sum of (now -
\* timeStamp) over every clone evaluated in this run, and maxedOut holds
\* exactly when the sample has minSamples periods and that sum exceeds
\* maxTime.
C9_BudgetAsStated ==
  (pc = "getNext")
     => /\ elapsed = ghost.sumAll
        /\ ghost.maxedOut <=> (ghost.size >= minSamples0
                                /\ ghost.sumAll > bench.maxTime)

\* C9: after an evaluation the budget is the sum of (now - timeStamp) over
\* the clones evaluated in this run once the sample had minSamples periods,
\* and maxedOut holds exactly when the sample has minSamples periods and
\* that sum exceeds maxTime, or the run is left early (B aborted or the
\* clone unclockable).
C9_Budget ==
  (pc = "getNext")
     => /\ elapsed = ghost.sumLate
        /\ ghost.maxedOut <=> \/ ghost.early
                              \/ (ghost.size >= minSamples0
                                  /\ ghost.sumLate > bench.maxTime)

\* An evaluation that left the budget untouched because the sample was
\* still short, the clone having taken time.
C9_Witness ==
  /\ pc = "getNext" /\ ghost.size < minSamples0 /\ ~ghost.early
  /\ ghost.sumAll > 0 /\ elapsed = 0

\* C11 as stated: when an evaluation set maxedOut, at the complete event B
\* is not running, B.initCount is what it was when run() started, the
\* clone queue is empty and no clone is started any more.
C11_StopAsStated ==
  (LastOf(log) = "complete" /\ ghost.maxedOut)
     => /\ ~bench.running
        /\ bench.initCount = initCount0
        /\ queue = <<>>
        /\ pc = "idle" /\ Running = {}

\* C11: when an evaluation set maxedOut and B is not aborted, at the
\* complete event B is not running, B.initCount is what it was when run()
\* started, the clone queue holds no clone but the one just evaluated (and
\* is empty after an unclockable clone) and no clone is started any more.
C11_Stop ==
  (LastOf(log) = "complete" /\ ghost.maxedOut /\ ~bench.aborted)
     => /\ ~bench.running
        /\ bench.initCount = initCount0
        /\ (queue = <<>> \/ queue = <<cur>>)
        /\ (ghost.unclockable => queue = <<>>)
        /\ pc = "idle" /\ Running = {}

\* A run stopped on its budget after a last cycle of more than one
\* iteration, the clone just evaluated still in the queue.
C11_Witness ==
  /\ LastOf(log) = "complete" /\ ghost.maxedOut /\ ~bench.aborted
  /\ ~ghost.unclockable /\ queue = <<cur>> /\ clones[cur].count > 1

\* Every clone executed so far clocks a positive time in each batch: its
\* test body does not throw and takes at least one tick per iteration.
AllPositive ==
  \A c \in 1..nClones : body[c] # Throws /\ body[c][1] >= body[c][2]

\* C12: a synchronous run() of B whose batches all take a positive time
\* and whose start event was not cancelled has emitted complete when it
\* returns with B not running, and it stopped at an evaluation where the
\* sample had minSamples periods and the budget exceeded maxTime.
C12_Terminates ==
  (pc = "idle" /\ log # <<>> /\ ~asyncArg /\ ~ghost.startCancelled
     /\ AllPositive)
     => /\ LastOf(log) = "complete"
        /\ ~bench.running
        /\ ghost.size >= minSamples0 /\ elapsed > bench.maxTime

\* C13: once a clone whose test body threw has been evaluated, one error
\* event was emitted on B, B.error is the thrown value, B is aborted, the
\* sample is empty and the run ends (the invoker is told to stop, so
\* complete is emitted next).
C13_Error ==
  (pc = "getNext" /\ clones[cur].error = BodyError)
     => /\ Occurrences(log, "error") = 1
        /\ bench.error = BodyError
        /\ bench.aborted
        /\ bench.sample = <<>>
        /\ cycleEvent

\* C14: when the run of B has ended on a clone whose every batch clocked 0,
\* that clone made exactly 5 cycles and stopped with hz infinite, the
\* sample is empty, no clone is queued, B is not running and complete was
\* emitted on B.
C14_Unclockable ==
  (pc = "idle" /\ cur # 0 /\ body[cur] = Zero /\ ~clones[cur].running
     /\ clones[cur].cycles > 0 /\ ~asyncArg /\ log # <<>>
     /\ ~ghost.startCancelled)
     => /\ clones[cur].cycles = 5 /\ clones[cur].hz = Inf
        /\ bench.sample = <<>> /\ queue = <<>>
        /\ ~bench.running
        /\ LastOf(Events(log)) = "complete"

\* C15: whenever a listener of B has been invoked and no code is running,
\* B.stats.mean is the arithmetic mean of B.stats.sample, 0 for the empty
\* sample (samples are appended to stats.sample as their clones complete).
C15_Mean ==
  (pc = "idle" /\ log # <<>>) => bench.mean = getMean(bench.sample)

\* C16: at the complete event of a run in which B.stats.mean > 0, B.hz is
\* the reciprocal of B.stats.mean and B.times.period equals B.stats.mean.
C16_Hz ==
  (LastOf(log) = "complete" /\ bench.mean # Zero)
     => bench.hz = FracInv(bench.mean) /\ bench.tPeriod = bench.mean

\* The positions of the notes of kind e in the invoker's history.
Idx(e) == {i \in DOMAIN inv.notes : inv.notes[i].e = e}
\* Nothing of the invoker can run any more.
Over == inv.pc \in {"returned", "stalled", "threw"}
\* Calls i < j with no call between them.
Consecutive(i, j) ==
  /\ i \in Idx("call") /\ j \in Idx("call") /\ i < j
  /\ \A k \in Idx("call") : ~(i < k /\ k < j)

\* C17: for a non-empty list, in map and in queue mode, the invoker
\* notifies start exactly once before the first method is invoked, cycle
\* exactly once between two consecutive benchmarks, and complete exactly
\* once, after the last benchmark has finished.
C17_Notify ==
  Over =>
    /\ Cardinality(Idx("start")) = 1
    /\ \A i \in Idx("call") : \E j \in Idx("start") : j < i
    /\ \A i, j \in Idx("call") :
         Consecutive(i, j) =>
           Cardinality({k \in Idx("cycle") : i < k /\ k < j}) = 1
    /\ Cardinality(Idx("complete")) = 1
    /\ \A k \in Idx("complete") :
         /\ k = Len(inv.notes)
         /\ \A i \in Idx("call") :
              \E f \in Idx("return") \cup Idx("emit") :
                i < f /\ f < k /\ inv.notes[f].o = inv.notes[i].o

\* C18: if the cycle callback sets aborted on the cycle event after some
\* benchmark, no later benchmark of the list is executed and the complete
\* notification is delivered exactly once.
C18_CycleAbort ==
  \A i \in Idx("cycle") :
    inv.notes[i].l = "aborted" =>
      /\ \A j \in Idx("call") : j < i
      /\ Cardinality(Idx("complete")) = 1
\* The callback aborted after the first of several benchmarks, an
\* asynchronous one, and the invoker is done.
C18_Witness ==
  /\ inv.pc = "returned" /\ Len(inv.list0) > 1
  /\ Cardinality(Idx("call")) = 1 /\ Idx("emit") # {}
  /\ \E i \in Idx("cycle") : inv.notes[i].l = "aborted"

\* The objects of the notes of kind e, in order.
RECURSIVE Objects(_, _)
Objects(notes, e) ==
  IF notes = <<>> THEN <<>>
  ELSE IF Head(notes).e = e THEN <<Head(notes).o>> \o Objects(Tail(notes), e)
  ELSE Objects(Tail(notes), e)
\* The objects that have finished (returned, or emitted 'complete'), in order.
RECURSIVE Finished(_)
Finished(notes) ==
  IF notes = <<>> THEN <<>>
  ELSE IF Head(notes).e \in {"return", "emit"}
       THEN <<Head(notes).o>> \o Finished(Tail(notes))
  ELSE Finished(Tail(notes))
IsPrefix(a, b) == Len(a) <= Len(b) /\ SubSeq(b, 1, Len(a)) = a
NoAbort == \A i \in Idx("cycle") : inv.notes[i].l # "aborted"
Notified == Idx("complete") # {}
\* Everything that was ever in the list: the initial list, then the pushes.
Listed == inv.list0 \o inv.pushed

NextOf(i, e) ==
  IF \E j \in Idx(e) : j > i
  THEN CHOOSE j \in Idx(e) : j > i /\ \A k \in Idx(e) : k > i => j <= k
  ELSE 0
\* The listener notes of the completion emitted at position i: those up to
\* the cycle notification that follows it.
ListenersAt(i) ==
  {j \in Idx("listener") : j > i /\ j < NextOf(i, "cycle")}
\* What C20 says of the listeners of every completion of an asynchronous
\* benchmark whose getNext has run: the invoker's listener first, every user
\* listener once, getNext no longer registered.
ListenersRight(i) ==
  LET o == inv.notes[i].o IN
  NextOf(i, "cycle") # 0 =>
    /\ inv.notes[i + 1] = Note("listener", o, "getNext")
    /\ \A u \in DOMAIN UserListeners :
         Cardinality({j \in Idx("listener") :
                        inv.notes[j] = Note("listener", o, UserListeners[u])}) = 1
    /\ \A u \in DOMAIN UserListeners :
         \E j \in ListenersAt(i) : inv.notes[j].l = UserListeners[u]
    /\ \A k \in DOMAIN inv.listeners[o] : inv.listeners[o][k] # "getNext"

\* C20 as stated: after the completion of an asynchronous benchmark the
\* next benchmark is started only through the delay facility.
C20_CompleteAsStated ==
  \A i \in Idx("emit") :
    /\ ListenersRight(i)
    /\ NextOf(i, "call") # 0 => inv.notes[NextOf(i, "call")].l = "timer"
\* C20: when an asynchronous benchmark driven by the invoker emits
\* complete, the invoker's listener runs before any user complete listener,
\* every user complete listener is invoked exactly once for that
\* completion, the invoker's listener is no longer registered afterwards,
\* and the next benchmark is started through the delay facility if it is
\* asynchronous and synchronously inside the completion if it is not.
C20_Complete ==
  \A i \in Idx("emit") :
    /\ ListenersRight(i)
    /\ NextOf(i, "call") # 0 =>
         LET c == inv.notes[NextOf(i, "call")] IN
         /\ c.l \in {"timer", "nested"}
         /\ c.l = "timer" <=> isAsync(inv, c.o) = "async"
\* Two asynchronous benchmarks in a row: the first has completed, its user
\* listeners have run, and the second was started by the timer.
C20_Witness ==
  \E i \in Idx("emit") :
    /\ NextOf(i, "cycle") # 0
    /\ ListenersAt(i) # {}
    /\ NextOf(i, "call") # 0
    /\ inv.notes[NextOf(i, "call")].l = "timer"

\* The cycle notifications of a suite run that follow a benchmark whose
\* error field is set.
ErrorCycles == {k \in Idx("cycle") : inv.suite /\ inv.error[inv.notes[k].o]}

\* C21: in a suite run, when a benchmark finishes with its error set, the
\* suite emits an error event targeting it followed by a cycle event, the
\* next benchmark of the suite is still executed (unless a listener aborted
\* the suite), and the suite emits complete, with running = false, after
\* the last benchmark.
C21_SuiteError ==
  \A k \in ErrorCycles :
    LET o == inv.notes[k].o IN
    /\ k > 1 /\ inv.notes[k - 1] = Note("error", o, "")
    /\ Cardinality({j \in Idx("error") : inv.notes[j].o = o}) = 1
    /\ (inv.notes[k].l # "aborted" /\ inv.pc # "returned") =>
         /\ inv.pc \in {"execute", "waiting", "getNext"}
         /\ inv.bench # o
         /\ inv.running
    /\ inv.pc = "returned" =>
         /\ ~inv.running
         /\ inv.notes[Len(inv.notes)].e = "complete"
         /\ Cardinality(Idx("complete")) = 1
         /\ NoAbort =>
              Objects(inv.notes, "call")
                = (IF inv.queued THEN Listed ELSE inv.list0)
\* A suite of three whose second benchmark has its error set: all three
\* were executed and the suite has completed.
C21_Witness ==
  /\ inv.suite /\ inv.pc = "returned" /\ NoAbort
  /\ Len(inv.list0) = 3 /\ inv.error[2] /\ ~inv.error[1] /\ ~inv.error[3]
  /\ Idx("error") # {}
  /\ Len(Objects(inv.notes, "call")) = 3

\* The last call was an uncancelled run() of the deferred clone X.
DeferredRun ==
  /\ cur = 1 /\ clones[1].defer /\ pc = "idle"
  /\ last.op = "run" /\ ~last.cancelled

\* C22: run() of a deferred clone clocks batches: the batch is compiled,
\* setup runs and the timer is started before the first body invocation
\* (the body is then invoked count times and the batch evaluated through
\* the delay facility).
C22_DeferredBatch ==
  DeferredRun => ghost.uncaught = 0 /\ "clock" \in {clog[i] : i \in DOMAIN clog}

\* C23: when the source benchmark is aborted as the deferred body of X
\* resolves, the clone's running flag becomes false and the clone emits
\* cycle and then complete.
C23_AbortedResolve ==
  (DeferredRun /\ bench.aborted) =>
    /\ ~clones[1].running
    /\ \E i, j \in DOMAIN clog : i < j /\ clog[i] = "cycle" /\ clog[j] = "complete"

\* The supported factories and their resolutions.
Supported == {i \in DOMAIN unit.factories : unit.factories[i].supported}
ResolutionOf(i) == getResolution(unit.factories[i].measured)

\* C24: for every set of timer candidates, the selection returns a
\* supported candidate whose resolution is minimal among the supported ones
\* or, when no supported candidate has a finite resolution, fails with the
\* 'no working timer' error.
C24_Timer ==
  unit.pc = "selected" =>
    IF \E i \in Supported : ResolutionOf(i) # Inf
    THEN /\ unit.out = "timer" /\ unit.f \in Supported
         /\ \A j \in Supported : ~FracLt(ResolutionOf(j), ResolutionOf(unit.f))
    ELSE unit.out = "Unable to find a working timer."

\* The listeners registered for the emitted type, and the first of them
\* (in registration order) that sets event.aborted, if any.
Registered == unit.events[unit.event.type]
FirstAbort ==
  IF \E i \in DOMAIN Registered : SetsAborted(Registered[i].l)
  THEN CHOOSE i \in DOMAIN Registered :
         /\ SetsAborted(Registered[i].l)
         /\ \A j \in 1..(i - 1) : ~SetsAborted(Registered[j].l)
  ELSE Len(Registered)

\* C25: emit invokes the listeners registered for the event's type in
\* registration order; once a listener sets event.aborted no later listener
\* is invoked; a listener returning false sets event.cancelled but does not
\* prevent later listeners from being invoked.
C25_Emit ==
  unit.pc = "emitted" =>
    /\ \A i, j \in DOMAIN Registered : i < j => Registered[i].n < Registered[j].n
    /\ unit.invoked = SubSeq(Registered, 1, FirstAbort)
    /\ unit.event.cancelled
         <=> \E i \in DOMAIN unit.invoked : ReturnsFalse(unit.invoked[i].l)
    /\ unit.event.aborted
         <=> \E i \in DOMAIN unit.invoked : SetsAborted(unit.invoked[i].l)
\* Three listeners: the first returns false, the second aborts, the third
\* is not invoked.
C25_Witness ==
  /\ unit.pc = "emitted" /\ Len(Registered) = 3
  /\ Registered[1].l = "false" /\ Registered[2].l = "abort"
  /\ Len(unit.invoked) = 2 /\ unit.event.cancelled /\ unit.event.aborted

\* The samples are non-empty and every sampled period of A is smaller than
\* every sampled period of B.
AllSmaller ==
  /\ unit.a # <<>> /\ unit.b # <<>>
  /\ \A i \in DOMAIN unit.a : \A j \in DOMAIN unit.b : unit.a[i] < unit.b[j]
\* One of the samples holds a single period and the two together more than
\* 30.
OneAgainstMany ==
  Min(Len(unit.a), Len(unit.b)) = 1 /\ Len(unit.a) + Len(unit.b) > 30

\* C26 as stated: whenever every sampled period of A is smaller than every
\* sampled period of B, A.compare(B) = 1 and B.compare(A) = -1; and
\* A.compare(A) = 0.
C26_CompareAsStated ==
  unit.pc = "compared" =>
    /\ AllSmaller => unit.ab = 1 /\ unit.ba = -1
    /\ unit.aa = 0
\* C26: the same, except that both comparisons are 0 when one sample holds
\* a single period and the two together more than 30.
C26_Compare ==
  unit.pc = "compared" =>
    /\ (AllSmaller /\ ~OneAgainstMany) => unit.ab = 1 /\ unit.ba = -1
    /\ (AllSmaller /\ OneAgainstMany) => unit.ab = 0 /\ unit.ba = 0
    /\ unit.aa = 0
\* Five samples each, every period of A below every period of B.
C26_Witness ==
  /\ unit.pc = "compared" /\ AllSmaller
  /\ Len(unit.a) = 5 /\ Len(unit.b) = 5 /\ unit.ab = 1 /\ unit.ba = -1

\* ------------------------------------------------- the end of a cycle loop
\* The step clocks a batch: cycle() found clone.running and called clock().
Clocks == Len(clog') > Len(clog) /\ clog'[Len(clog) + 1] = "clock"

\* The step ends the clone's run: cycle() emitted 'cycle' and 'complete'.
Stops ==
  /\ Len(clog') >= Len(clog) + 3
  /\ "cycle" \in {clog'[i] : i \in (Len(clog) + 1)..Len(clog')}
  /\ clog'[Len(clog')] = "complete"
  /\ ~clones'[cur].running

\* The clone is neither errored nor aborted.
Clean(c) == c.error = NoError /\ ~c.aborted

\* times.cycle of the clone has reached its minTime.
Reached(c) == ~FracLt(c.tCycle, <<c.minTime, 1>>)

\* A batch was clocked earlier in the run recorded by the log s.
ClockedIn(s) == \E i \in DOMAIN s : s[i] = "clock"

\* C27 as stated: a cycle loop that is neither errored nor aborted stops
\* clocking exactly at the first cycle that measured >= minTime; every
\* earlier cycle measured less, and the clone then emits cycle and complete
\* with times.cycle >= minTime, without clocking again.
C27_StopAsStated ==
  [][Clocks /\ Clean(clones'[cur]) =>
       /\ "complete" \notin {clog[i] : i \in DOMAIN clog}
       /\ ClockedIn(clog) => ~Reached(clones[cur])
       /\ Stops <=> Reached(clones'[cur])
       /\ ~Stops => clones'[cur].running /\ clog'[Len(clog')] # "complete"]_vars

\* C27: the same, with the second way a clean loop ends: a batch that
\* clocks 0 and leaves the next count non-finite stops the loop too, with
\* times.cycle = 0.
C27_Stop ==
  [][Clocks /\ Clean(clones'[cur]) =>
       /\ "complete" \notin {clog[i] : i \in DOMAIN clog}
       /\ ClockedIn(clog) => ~Reached(clones[cur])
       /\ Stops <=> \/ Reached(clones'[cur])
                    \/ /\ clones'[cur].tCycle = Zero
                       /\ \/ clones'[cur].cycles \notin DOMAIN divisors
                          \/ divisors[clones'[cur].cycles] = 0
                          \/ 4000000 \div divisors[clones'[cur].cycles]
                               <= clones[cur].count
       /\ ~Stops => clones'[cur].running /\ clog'[Len(clog')] # "complete"]_vars

\* A clean clone has completed after at least two batches, the last of
\* which reached minTime.
C27_Witness ==
  /\ pc = "idle" /\ Clean(clones[cur]) /\ Reached(clones[cur])
  /\ Len(clog) >= 2 /\ clog[Len(clog)] = "complete"
  /\ Cardinality({i \in DOMAIN clog : clog[i] = "clock"}) >= 2


\* ------------------------------------------------- the count of the next cycle
\* The elapsed time the batch of this step measured, in ticks.
Measured1 == clones'[cur].tCycle[1]

\* The step clocks a batch and cycle() goes on to another cycle.
Continues == Clocks /\ clones'[cur].running

\* C28: after a cycle that measured 0 < elapsed < minTime the next cycle
\* uses count + ceil((minTime - elapsed) / period), period = elapsed / count
\* (that is, ceil((minTime - elapsed) * count / elapsed)); and from each
\* cycle of a run to the next the count strictly increases.
C28_NextCount ==
  [][Continues =>
       /\ clones'[cur].count > clones[cur].count
       /\ (clones'[cur].tCycle[2] = 1 /\ 0 < Measured1
             /\ Measured1 < clones'[cur].minTime)
          => clones'[cur].count
               = clones[cur].count
                 + ((clones'[cur].minTime - Measured1) * clones[cur].count
                    + Measured1 - 1) \div Measured1]_vars

\* A second cycle is about to start with the count raised after a batch
\* of more than one iteration that measured between 0 and minTime.
C28_Witness ==
  /\ pc = "cycle" /\ clones[cur].running /\ ClockedIn(clog)
  /\ FracLt(Zero, clones[cur].tCycle) /\ ~Reached(clones[cur])
  /\ clones[cur].initCount > 1
  /\ clones[cur].count > clones[cur].initCount


\* ------------------------------------------------- batches that clock 0
\* The counts the spec names for cycles 1 to 4.
Raised == <<976, 7812, 62500, 500000>>

\* The count of the next cycle has been computed.
Counted == unit.pc = "counted"

\* C29 as stated: for every current count, a batch that clocks 0 at cycle
\* k in 1..4 lets the clone continue with floor(4e6 / divisor[k])
\* iterations, and the count becomes non-finite only when a batch clocks 0
\* at cycle 5.
C29_ZeroAsStated ==
  Counted =>
    /\ (unit.clocked = 0 /\ unit.cycles \in 1..4)
       => unit.running /\ unit.next = Raised[unit.cycles]
    /\ unit.next = CountInf => unit.clocked = 0 /\ unit.cycles = 5

\* C29: for every current count below floor(4e6 / divisor[k]), a batch
\* that clocks 0 at cycle k in 1..4 lets the clone continue with that many
\* iterations; the count becomes non-finite, ending the run, exactly when
\* a batch clocks 0 at cycle 5 or later, or at a cycle k in 1..4 whose
\* count is already floor(4e6 / divisor[k]) or more.
C29_Zero ==
  Counted =>
    /\ (unit.clocked = 0 /\ unit.cycles \in 1..4
          /\ unit.count < Raised[unit.cycles])
       => unit.running /\ unit.next = Raised[unit.cycles]
    /\ unit.next = CountInf
       <=> /\ unit.clocked = 0
           /\ \/ unit.cycles >= 5
              \/ unit.count >= Raised[unit.cycles]
    /\ unit.running <=> unit.next # CountInf

\* A batch of one iteration clocked 0 at the first cycle and the clone
\* goes on with 976 iterations.
C29_Witness ==
  /\ Counted /\ unit.clocked = 0 /\ unit.cycles = 1 /\ unit.count = 1
  /\ unit.running /\ unit.next = 976


\* ------------------------------------------- the first batch of a clone
\* A clone of the running B has emitted 'start' and cycle() is about to
\* clock its first batch.
FirstBatch == pc = "cycle" /\ clog = <<"start">> /\ cur # 0 /\ bench.running

\* C30: while B is running, the start of each clone sets the clone's count
\* to B.initCount, which is the count of the last cycle the previous clone
\* evaluated; so a clone after the first clocks its first batch with the
\* count the previous clone finished with.
C30_StartCount ==
  FirstBatch => clones[cur].count = bench.initCount


\* ------------------------------------------------ a clone's abort and B
\* The clone `cur` of the running B emitted abort during its run and its
\* cycle loop has handed over to compute's evaluate.
CloneAborted == pc = "evaluate" /\ cur # 0 /\ "abort" \in {clog[i] : i \in DOMAIN clog}

\* C31: when a clone emits abort while B is running, B becomes aborted and
\* not running, and exactly one abort event followed by exactly one
\* synthetic cycle event is emitted on B.
C31_CloneAbort ==
  CloneAborted =>
    /\ bench.aborted /\ ~bench.running
    /\ Occurrences(log, "abort") = 1
    /\ Len(log) >= 2 /\ log[Len(log) - 1] = "abort" /\ log[Len(log)] = "cycle"


\* ------------------------------------------------ a clone's cycle and B
\* C32: while B is running, every cycle event emitted on a clone is
\* delivered once to B's cycle listeners, that is, emitted on B as well;
\* so B has seen at least the cycle events of the clone now running.
C32_CycleOnB ==
  (cur # 0 /\ bench.running /\ pc \in {"cycle", "evaluate"})
     => Occurrences(log, "cycle") >= Occurrences(clog, "cycle")


\* ------------------------------------------------- clock() and its pre-tests
\* clock() has returned.
Returned == unit.pc = "returned"

\* The body threw in the pre-test and again in the fallback pre-test.
ThrewTwice ==
  unit.decompilable /\ unit.outcome[1] # "ok" /\ unit.outcome[2] # "ok"

\* The fallback pre-test returned.
FallbackOk == unit.outcome[IF unit.decompilable THEN 2 ELSE 1] = "ok"

\* The real batch ran once, with exactly count iterations timed.
OneBatch ==
  /\ unit.error = NoErr /\ unit.batches = 1 /\ unit.timed = unit.count
  /\ unit.result > 0

\* C33 as stated: if the body throws in the pre-test and again in the
\* fallback pre-test, clone.error is the first thrown value, clock() returns
\* 0 and the real batch never runs; if the fallback pre-test succeeds,
\* clone.error is cleared and the real batch runs once with count
\* iterations.
C33_PretestAsStated ==
  Returned =>
    /\ ThrewTwice => /\ unit.error = thrownBy(1)
                     /\ unit.result = 0 /\ unit.batches = 0
    /\ FallbackOk => OneBatch

\* C33: the same, where a falsy first thrown value e is recorded as
\* new Error(String(e)).
C33_Pretest ==
  Returned =>
    /\ ThrewTwice
         => /\ unit.error.n = 1
            /\ unit.error.kind
                 = (IF unit.outcome[1] = "error" THEN "thrown" ELSE "wrapped")
            /\ unit.result = 0 /\ unit.batches = 0
    /\ FallbackOk => OneBatch

\* Both pre-tests threw a truthy value and clock() returned 0 with the
\* first of them in clone.error.
C33_Witness ==
  /\ Returned /\ ThrewTwice /\ unit.outcome[1] = "error"
  /\ unit.outcome[2] = "error" /\ unit.error = thrownBy(1)
  /\ unit.result = 0 /\ unit.calls = 2


\* ------------------------------------------- abort(), reset() and calledBy
\* Number of events of one type in a sequence of <<object, type>> pairs.
EventsOf(s, type) == Cardinality({i \in DOMAIN s : s[i][2] = type})

\* A top-level call has returned.
CallReturned == unit.stack = <<>> /\ unit.last.fn # "none"

\* C34: when listeners call neither abort nor reset, a top-level abort()
\* or reset() ends: the calls never nest deeper than three and take at
\* most six steps, some step is possible until the call has returned, at
\* most one abort and one reset event are emitted, and both flags are
\* false when the call has returned.
C34_Guards ==
  unit.hook = "none" =>
    /\ Len(unit.stack) <= 3 /\ unit.steps <= 6
    /\ unit.stack # <<>> => ENABLED GuardNext
    /\ CallReturned =>
         /\ EventsOf(unit.last.emitted, "abort") <= 1
         /\ EventsOf(unit.last.emitted, "reset") <= 1
         /\ ~unit.calledBy.abort /\ ~unit.calledBy.reset

\* reset() of a running benchmark called at top level has returned after
\* the whole chain reset, abort, reset, with one abort event emitted.
C34_Witness ==
  /\ unit.hook = "none" /\ CallReturned /\ unit.steps = 6
  /\ unit.last.fn = "reset" /\ unit.last.ran0
  /\ EventsOf(unit.last.emitted, "abort") = 1
  /\ ~unit.calledBy.abort /\ ~unit.calledBy.reset


\* ------------------------------------------- abort() during an async run
\* abort() called by the user during an asynchronous run of B has
\* returned: B is aborted and not running, and no run() was made since.
AbortedAsync == asyncArg /\ bench.aborted /\ ~bench.running

\* C35: once abort() called by the user on B during an asynchronous run
\* has returned, no clone of B starts another clock batch; the pending
\* delayed callback of the clone does not execute the body.
C35_NoBatchAfterAbort == [][AbortedAsync => ~Clocks]_vars

\* abort() on B has just returned during an asynchronous run while the
\* delayed callback of the clone is still pending.
C35_Witness ==
  /\ AbortedAsync /\ last.op = "abort" /\ last.pre.running
  /\ \E t \in timers : t.owner = cur /\ cur # 0


\* ------------------------------------- reset() of one benchmark during
\* ------------------------------------- abort() or reset() of another
\* C36: a call X.reset() made by the user, at top level or from a listener
\* of Y while an abort() or reset() of Y is in progress, on a running X has
\* emitted the abort event on X when it returns.
C36_ResetAborts ==
  (unit.last.fn = "reset" /\ unit.last.by = "user" /\ unit.last.ran0)
     => <<unit.last.obj, "abort">>
          \in {unit.last.emitted[i] : i \in DOMAIN unit.last.emitted}

\* X.reset() called from the abort listener of Y has returned, X having
\* been running, while the reset() of Y that emitted the event is still in
\* progress.
C36_Witness ==
  /\ unit.last.fn = "reset" /\ unit.last.by = "user" /\ unit.last.ran0
  /\ unit.last.obj = "X" /\ unit.last.emitted = << <<"X", "abort">> >>
  /\ Len(unit.stack) = 2 /\ unit.stack[1].fn = "reset"
  /\ unit.stack[1].obj = "Y" /\ unit.stack[2].fn = "abort"


\* ------------------------------------------------- a cancelled start
\* The step is a run() of B whose start event a listener cancelled.
CancelledRun == runs' = runs + 1 /\ last'.op = "run" /\ last'.cancelled

\* C37: a run() whose start event is cancelled clocks no batch, enqueues
\* no clone, schedules nothing and emits only start (neither cycle nor
\* complete), and leaves the benchmark running.
C37_CancelledStart ==
  [][CancelledRun =>
       /\ ~Clocks /\ clog' = clog
       /\ nClones' = nClones /\ queue' = queue /\ clones' = clones
       /\ timers' = timers /\ pc' = "idle"
       /\ log' = <<"start">>
       /\ bench'.running]_vars

\* run() with a cancelled start event has returned.
C37_Witness ==
  /\ last.op = "run" /\ last.cancelled /\ pc = "idle"
  /\ bench.running /\ log = <<"start">> /\ ghost.startCancelled


\* ------------------------------------------- abort() when not running
\* The step is an abort() called by the user on B while B is not running.
IdleAbort == calls' = calls + 1 /\ last'.op = "abort" /\ ~bench.running

\* C38: abort() on a benchmark that is not running emits no event and
\* changes nothing: aborted, running, the pending timers, error, stats and
\* times (every field of B) are as before.
C38_IdleAbort ==
  [][IdleAbort => /\ bench' = bench /\ log' = log /\ timers' = timers
                  /\ clones' = clones /\ clog' = clog /\ pc' = pc]_vars

\* abort() on B has returned, B having completed a run before and not
\* being running at the call.
C38_Witness ==
  /\ last.op = "abort" /\ ~last.pre.running /\ bench = last.pre
  /\ bench.sample # <<>> /\ ~bench.aborted /\ Len(log) = last.preLen


\* ------------------------------------------------- invoke over no object
\* invoke() was called over an empty list and has gone past its first
\* raiseIndex().
EmptyInvoked == inv.list0 = <<>> /\ inv.pc # "invoke"

\* C39: invoke over an empty list calls none of the start, cycle and
\* complete callbacks and returns; when the call is the one of Suite.run,
\* suite.running stays true and complete is never emitted.
C39_EmptyList ==
  EmptyInvoked =>
    /\ inv.pc = "returned" /\ inv.notes = <<>> /\ inv.result = <<>>
    /\ inv.suite => inv.running

\* Suite.run() on a suite without benchmarks has returned from invoke().
C39_Witness ==
  /\ EmptyInvoked /\ inv.suite /\ inv.running /\ inv.pc = "returned"
  /\ inv.notes = <<>>


\* ------------------------------------------------- compare, both ways
\* A.compare(B) and B.compare(A) have been computed.
Compared == unit.pc = "compared"

\* C40 as stated: for any two distinct benchmarks with any samples, empty
\* ones included, A.compare(B) = -B.compare(A).
C40_AntisymmetricAsStated == Compared => unit.ab = 0 - unit.ba

\* C40: A.compare(B) = -B.compare(A) for any two distinct benchmarks whose
\* samples are both non-empty.
C40_Antisymmetric ==
  (Compared /\ unit.a # <<>> /\ unit.b # <<>>) => unit.ab = 0 - unit.ba

\* A single-element sample against a larger one, with a verdict.
C40_Witness ==
  /\ Compared /\ Len(unit.a) = 1 /\ Len(unit.b) = 5
  /\ unit.ab = 1 /\ unit.ba = -1

====
